---- MODULE Spec2Model ----
(***************************************************************************)
(* Model of components/style/matching.rs: the style sharing candidate      *)
(* cache, the candidate test, the lookup, and the match-and-cascade step   *)
(* that feeds the cache.                                                   *)
(*                                                                         *)
(* Option<T> is written as a sequence: None is <<>> and Some(x) is <<x>>.  *)
(* An Arc<ComputedValues> is a record whose field ptr is the address of    *)
(* the allocation, so Arc::ptr_eq compares the ptr fields.                 *)
(***************************************************************************)
EXTENDS Integers, Sequences, FiniteSets, TLC

VARIABLES
    dom,    \* the element tree: element -> its attributes and the selector
            \* flags set on it
    data,   \* element -> ElementData (styles, restyle)
    cache,  \* StyleSharingCandidateCache.cache, most recently used first
    info,   \* CurrentElementInfo.revalidation_match_results of the thread
    queue,  \* elements the worker still has to style, in order
    ctx,    \* SharedStyleContext: build feature, options, traversal flags
    pc,     \* "begin": next element; "missed": its lookup returned CannotShare;
            \* otherwise the step of the call the worker is in, or "panicked"
    current, \* the element whose lookup missed and awaits match_and_cascade
    touches, \* touch() calls made so far besides the ones that follow a hit
    last,   \* the last call made, the cache before it and as the call
            \* returned it, and what it returned (observation only)
    log,    \* the elements inserted since the cache was last cleared or
            \* touched, oldest first (observation only)
    unit,   \* per worker of the parallel traversal, the elements it took in
            \* its current unit of work (observation only)
    workers \* the pool of the parallel traversal: per worker, the element it
            \* is styling and its ThreadLocalStyleContext (selector_flags,
            \* and where the workers share styles its
            \* style_sharing_candidate_cache and current_element_info)

vars == <<dom, data, cache, info, queue, ctx, pc, current, touches, last, log,
          unit, workers>>

None == <<>>
Some(x) == <<x>>
IsSome(o) == o # <<>>
IsNone(o) == o = <<>>
Unwrap(o) == o[1]

\* ---------------------------------------------------------------- bounds

\* How many attributes the element under test may differ in from the
\* candidate, in the candidate-test specification.
MaxDiff == 2
\* How many touch() calls a run makes besides the ones that follow a hit.
MaxTouch == 1
\* Siblings of the wide tree used to fill the cache past its capacity.
NumSiblings == 9

\* ------------------------------------------------------- program constants

STYLE_SHARING_CANDIDATE_CACHE_SIZE == 8

AFFECTED_BY_ID_SELECTOR == "AFFECTED_BY_ID_SELECTOR"
AFFECTED_BY_PSEUDO_ELEMENTS == "AFFECTED_BY_PSEUDO_ELEMENTS"
AFFECTED_BY_STYLE_ATTRIBUTE == "AFFECTED_BY_STYLE_ATTRIBUTE"
AFFECTED_BY_PRESENTATIONAL_HINTS == "AFFECTED_BY_PRESENTATIONAL_HINTS"
\* A relation that does not prevent sharing.
AFFECTED_BY_STATE == "AFFECTED_BY_STATE"

\* CacheMiss, in the order element_matches_candidate tests them.
CacheMiss ==
    <<"Parent", "NativeAnonymousContent", "LocalName", "Namespace", "Link",
      "UserAndAuthorRules", "State", "IdAttr", "StyleAttr", "Class",
      "PresHints", "Revalidation">>

CanSkipCascade == "CanSkipCascade"
MustCascade == "MustCascade"
Unchanged == "Unchanged"
Changed == "Changed"
CannotShare == [kind |-> "CannotShare"]
StyleWasShared(i, req) == [kind |-> "StyleWasShared", index |-> i, child |-> req]

EagerPseudos == {"before", "after"}

\* ------------------------------------------------------------ the element tree

Elements == DOMAIN dom

\* Option<E>: None for a root
parent_element(e) == dom[e].parent
is_native_anonymous(e) == dom[e].nac
get_local_name(e) == dom[e].local_name
get_namespace(e) == dom[e].namespace
is_link(e) == dom[e].link
matches_user_and_author_rules(e) == dom[e].uaar
get_state(e) == dom[e].state
get_id(e) == dom[e].id
\* has_attr(&ns!(), &local_name!("id"))
has_id_attr(e) == IsSome(dom[e].id)
style_attribute(e) == IF dom[e].style THEN Some("style") ELSE None
\* each_class pushes the classes in attribute order
each_class(e) == dom[e].classes
\* synthesize_presentational_hints_for_legacy_attributes: the hints pushed
synthesize_presentational_hints_for_legacy_attributes(e) ==
    IF dom[e].hints THEN <<"hint">> ELSE <<>>
\* Stylist::match_revalidation_selectors: the bits of the selectors that match
match_revalidation_selectors(e) == dom[e].revalidation

\* ------------------------------------------------------------ element data

has_styles(d) == IsSome(d.styles)
has_restyle(d) == IsSome(d.restyle)
styles(d) == Unwrap(d.styles)
\* ComputedStyle::values(): the value set, which must be present
values(style) == Unwrap(style.values)
\* A primary style computed anew for the element: the same rules, a value
\* set of its own.
recomputed_primary_style(e) ==
    [styles(data[e]).primary EXCEPT
        !.values = Some([values(styles(data[e]).primary) EXCEPT
                            !.ptr = <<e, "recomputed">>])]

\* The primary style an element holds now (borrow_data().styles().primary).
current_primary_style(e) == styles(data[e]).primary
\* ElementStyles::new(primary): no pseudo style
ElementStylesNew(primary) ==
    [primary |-> primary, pseudos |-> [p \in EagerPseudos |-> None]]

\* ------------------------------------------------- the selector flags

HAS_SLOW_SELECTOR == "HAS_SLOW_SELECTOR"
HAS_EMPTY_SELECTOR == "HAS_EMPTY_SELECTOR"
\* ElementSelectorFlags::for_self and for_parent
for_self(flags) == flags \cap {HAS_EMPTY_SELECTOR}
for_parent(flags) == flags \cap {HAS_SLOW_SELECTOR}

has_selector_flags(e, flags) == flags \subseteq dom[e].selector_flags
\* SelectorFlagsMap::insert_flags: the map as a set of <<element, flag>>
insert_flags(map, e, flags) == map \cup {<<e, f>> : f \in flags}

\* An apply_selector_flags that leaves out the flags of an element other
\* than the one being styled.
apply_selector_flags_own_only(self, map, element, flags) ==
    [set |-> IF for_self(flags) # {} /\ element = self THEN Some(element) ELSE None,
     map |-> IF for_parent(flags) # {} /\ IsSome(parent_element(element))
                /\ ~has_selector_flags(Unwrap(parent_element(element)),
                                       for_parent(flags))
             THEN insert_flags(map, Unwrap(parent_element(element)),
                               for_parent(flags))
             ELSE map]

\* An apply_selector_flags that writes the flags of any element in place.
apply_selector_flags_in_place(self, map, element, flags) ==
    [set |-> IF for_self(flags) # {} THEN Some(element) ELSE None,
     map |-> IF for_parent(flags) # {} /\ IsSome(parent_element(element))
                /\ ~has_selector_flags(Unwrap(parent_element(element)),
                                       for_parent(flags))
             THEN insert_flags(map, Unwrap(parent_element(element)),
                               for_parent(flags))
             ELSE map]

\* apply_selector_flags: [set, map], set being the element whose flags are
\* written in place (an Option) and map the deferred map as the call leaves it.
apply_selector_flags(self, map, element, flags) ==
    LET self_flags == for_self(flags)
        parent_flags == for_parent(flags)
        map_self == IF self_flags # {} /\ element # self
                       /\ ~has_selector_flags(element, self_flags)
                    THEN insert_flags(map, element, self_flags)
                    ELSE map
    IN [set |-> IF self_flags # {} /\ element = self THEN Some(element) ELSE None,
        map |-> IF parent_flags # {} /\ IsSome(parent_element(element))
                   /\ ~has_selector_flags(Unwrap(parent_element(element)),
                                          parent_flags)
                THEN insert_flags(map_self, Unwrap(parent_element(element)),
                                  parent_flags)
                ELSE map_self]

\* The closure set_selector_flags of the element being styled (self), called
\* with (el, flags): apply_selector_flags on the deferred map of the thread.
\* [dom, map], the elements and the map as the call leaves them.
set_selector_flags(self, d, map, el, flags) ==
    LET r == apply_selector_flags(self, map, el, flags)
    IN [dom |-> IF IsSome(r.set)
                THEN [d EXCEPT ![Unwrap(r.set)].selector_flags = @ \cup for_self(flags)]
                ELSE d,
        map |-> r.map]

\* The calls selector matching makes to the closure, in order.
RECURSIVE flags_set(_, _, _, _)
flags_set(self, d, map, calls) ==
    IF calls = <<>> THEN [dom |-> d, map |-> map]
    ELSE LET r == set_selector_flags(self, d, map, Head(calls)[1], Head(calls)[2])
         IN flags_set(self, r.dom, r.map, Tail(calls))

\* Stylist::match_revalidation_selectors and push_applicable_declarations:
\* the (element, flags) they hand to the callback while they match the
\* revalidation selectors, the rules of the primary style and the rules of
\* the eager pseudo-elements of e.
revalidation_selector_flags(e) == dom[e].selector_flag_calls.revalidation
primary_selector_flags(e) == dom[e].selector_flag_calls.primary
pseudo_selector_flags(e) == dom[e].selector_flag_calls.pseudos

\* ------------------------------------------------------- the candidate test

Candidate(e, classes, reval) ==
    [element |-> e, class_attributes |-> classes,
     revalidation_match_results |-> reval]

\* Arc::ptr_eq of the two parents' primary values; false unless both exist.
same_computed_values(first, second) ==
    IF IsNone(first) \/ IsNone(second) THEN FALSE
    ELSE values(styles(data[Unwrap(first)]).primary).ptr
            = values(styles(data[Unwrap(second)]).primary).ptr

has_presentational_hints(element) ==
    synthesize_presentational_hints_for_legacy_attributes(element) # <<>>

\* The candidate after have_same_class: its class list is cached on first use.
have_same_class_candidate(candidate, candidate_element) ==
    IF IsNone(candidate.class_attributes)
    THEN [candidate EXCEPT !.class_attributes = Some(each_class(candidate_element))]
    ELSE candidate

\* A comparison of the classes as sets, which ignores their order.
have_same_class_unordered(element, candidate, candidate_element) ==
    {each_class(element)[i] : i \in DOMAIN each_class(element)}
        = {each_class(candidate_element)[i] : i \in DOMAIN each_class(candidate_element)}

have_same_class(element, candidate, candidate_element) ==
    each_class(element)
        = Unwrap(have_same_class_candidate(candidate, candidate_element).class_attributes)

\* revalidate: [same, candidate, info, calls], both results cached on first
\* use. Matching for the element hands flags to set_selector_flags (calls);
\* matching for the candidate has an empty callback.
revalidate(element, candidate, candidate_element, inf) ==
    LET inf1 == IF IsNone(inf) THEN Some(match_revalidation_selectors(element))
                ELSE inf
        cand1 == IF IsNone(candidate.revalidation_match_results)
                 THEN [candidate EXCEPT !.revalidation_match_results =
                           Some(match_revalidation_selectors(candidate_element))]
                 ELSE candidate
    IN [same |-> Unwrap(inf1) = Unwrap(cand1.revalidation_match_results),
        candidate |-> cand1, info |-> inf1,
        calls |-> IF IsNone(inf) THEN revalidation_selector_flags(element) ELSE <<>>]

Err(miss, candidate, inf) ==
    [ok |-> FALSE, miss |-> miss, style |-> None, candidate |-> candidate, info |-> inf,
     calls |-> <<>>]
Ok(style, candidate, inf) ==
    [ok |-> TRUE, miss |-> "", style |-> Some(style), candidate |-> candidate, info |-> inf,
     calls |-> <<>>]

\* An id test that compares the id of the element with itself.
id_differs_from_own(element, candidate_element) ==
    get_id(element) # get_id(element)

\* The id test of element_matches_candidate.
id_differs(element, candidate_element) ==
    get_id(element) # get_id(candidate_element)

\* The end of element_matches_candidate, rv being what revalidate returned.
revalidated(candidate_element, rv) ==
    IF ~rv.same
    THEN [Err("Revalidation", rv.candidate, rv.info) EXCEPT !.calls = rv.calls]
    ELSE [Ok(current_primary_style(candidate_element), rv.candidate, rv.info)
             EXCEPT !.calls = rv.calls]

\* Result<ComputedStyle, CacheMiss>, with the candidate and the element info
\* as the call leaves them; cand1 is the candidate after have_same_class.
element_matches_candidate_with(element, candidate, candidate_element, inf, cand1) ==
    IF parent_element(element) # parent_element(candidate_element)
       /\ ~same_computed_values(parent_element(element),
                                parent_element(candidate_element))
    THEN Err("Parent", candidate, inf)
    ELSE IF is_native_anonymous(element)
    THEN Err("NativeAnonymousContent", candidate, inf)
    ELSE IF get_local_name(element) # get_local_name(candidate_element)
    THEN Err("LocalName", candidate, inf)
    ELSE IF get_namespace(element) # get_namespace(candidate_element)
    THEN Err("Namespace", candidate, inf)
    ELSE IF is_link(element) # is_link(candidate_element)
    THEN Err("Link", candidate, inf)
    ELSE IF matches_user_and_author_rules(element)
                # matches_user_and_author_rules(candidate_element)
    THEN Err("UserAndAuthorRules", candidate, inf)
    ELSE IF get_state(element) # get_state(candidate_element)
    THEN Err("State", candidate, inf)
    ELSE IF id_differs(element, candidate_element)
    THEN Err("IdAttr", candidate, inf)
    ELSE IF IsSome(style_attribute(element))
    THEN Err("StyleAttr", candidate, inf)
    ELSE IF ~have_same_class(element, candidate, candidate_element)
    THEN Err("Class", cand1, inf)
    ELSE IF has_presentational_hints(element)
    THEN Err("PresHints", cand1, inf)
    ELSE revalidated(candidate_element,
                     revalidate(element, cand1, candidate_element, inf))

element_matches_candidate(element, candidate, candidate_element, inf) ==
    element_matches_candidate_with(
        element, candidate, candidate_element, inf,
        have_same_class_candidate(candidate, candidate_element))

share_style_with_candidate_if_possible(self, candidate, inf) ==
    element_matches_candidate(self, candidate, candidate.element, inf)

\* ------------------------------------------------------------ the LRU cache

\* LRUCache<K>: the entries, most recently used first; iteration goes from
\* the most to the least recently used entry.
LRUCache_num_entries(entries) == Len(entries)

\* An insert that evicts nothing.
LRUCache_insert_unbounded(entries, key) == <<key>> \o entries

\* An insert that evicts the most recently used entry of a full cache.
LRUCache_insert_evicting_newest(entries, key) ==
    IF Len(entries) = 8
    THEN <<key>> \o SubSeq(entries, 2, Len(entries))
    ELSE <<key>> \o entries

\* insert: evicts the least recently used entry when the cache is full
LRUCache_insert(entries, key) ==
    IF Len(entries) = STYLE_SHARING_CANDIDATE_CACHE_SIZE
    THEN <<key>> \o SubSeq(entries, 1, Len(entries) - 1)
    ELSE <<key>> \o entries

\* touch: the entry at the (0-based) position becomes the most recently used
LRUCache_touch(entries, pos) ==
    <<entries[pos + 1]>> \o SubSeq(entries, 1, pos)
        \o SubSeq(entries, pos + 2, Len(entries))

LRUCache_evict_all(entries) == <<>>

\* --------------------------------------------- StyleSharingCandidateCache

num_entries(c) == LRUCache_num_entries(c)

\* Every relation taken as shareable.
relations_always_shareable(relations) == TRUE

relations_are_shareable(relations) ==
    relations \cap {AFFECTED_BY_ID_SELECTOR, AFFECTED_BY_PSEUDO_ELEMENTS,
                    AFFECTED_BY_STYLE_ATTRIBUTE,
                    AFFECTED_BY_PRESENTATIONAL_HINTS} = {}

specifies_transitions(box_style) == box_style.transitions
specifies_animations(box_style) == box_style.animations

\* An insert_if_possible that lets native-anonymous content in.
insert_if_possible_anonymous(c, element, style, relations, revalidation_match_results) ==
    IF IsNone(parent_element(element)) THEN c
    ELSE IF ~relations_are_shareable(relations) THEN c
    ELSE IF specifies_transitions(style) THEN c
    ELSE IF specifies_animations(style) THEN c
    ELSE LRUCache_insert(c, Candidate(element, None, revalidation_match_results))

\* An insert_if_possible that also rejects an element with an id attribute.
insert_if_possible_without_id(c, element, style, relations, revalidation_match_results) ==
    IF IsNone(parent_element(element)) THEN c
    ELSE IF is_native_anonymous(element) THEN c
    ELSE IF has_id_attr(element) THEN c
    ELSE IF ~relations_are_shareable(relations) THEN c
    ELSE IF specifies_transitions(style) THEN c
    ELSE IF specifies_animations(style) THEN c
    ELSE LRUCache_insert(c, Candidate(element, None, revalidation_match_results))

\* The cache after insert_if_possible(element, style, relations, results).
insert_if_possible(c, element, style, relations, revalidation_match_results) ==
    IF IsNone(parent_element(element)) THEN c
    ELSE IF is_native_anonymous(element) THEN c
    ELSE IF ~relations_are_shareable(relations) THEN c
    ELSE IF specifies_transitions(style) THEN c
    ELSE IF specifies_animations(style) THEN c
    ELSE LRUCache_insert(c, Candidate(element, None, revalidation_match_results))

touch(c, index) == LRUCache_touch(c, index)

\* A clear that evicts the least recently used entry only.
clear_evicting_oldest(c) == IF c = <<>> THEN c ELSE SubSeq(c, 1, Len(c) - 1)

\* A clear that keeps the most recently used entry.
clear_keeping_newest(c) == IF c = <<>> THEN c ELSE <<c[1]>>

\* A clear that leaves the entries.
clear_nothing(c) == c

clear(c) == LRUCache_evict_all(c)

\* ------------------------------------------------------------------ damage

RestyleDamage_empty == {}
RestyleDamage_reconstruct == {"reconstruct"}

StyleDifference(damage, change) == [damage |-> damage, change |-> change]

\* A conversion that asks for the cascade whatever the change.
ChildCascadeRequirementAlwaysMust(change) == MustCascade

\* impl From<StyleChange> for ChildCascadeRequirement
ChildCascadeRequirementFrom(change) ==
    IF change = Unchanged THEN CanSkipCascade ELSE MustCascade

is_before_or_after(pseudo) == pseudo \in {"before", "after"}

\* TElement::existing_style_for_restyle_damage: Servo compares against the
\* old values; Gecko against the style of the frame, when there is one.
existing_style_for_restyle_damage(self, old_values, pseudo) ==
    IF ~ctx.gecko THEN Some(old_values)
    ELSE IF IsNone(pseudo)
    THEN (IF dom[self].frame THEN Some(old_values) ELSE None)
    ELSE (IF Unwrap(pseudo) \in dom[self].pseudo_frames THEN Some(old_values) ELSE None)

\* RestyleDamage::compute_style_difference(source, new_values): the
\* property-by-property comparator.
RestyleDamage_compute_style_difference(source, new_values) ==
    LET damage ==
            (IF source.display # new_values.display
                  \/ source.ineffective_content # new_values.ineffective_content
             THEN {"reconstruct"} ELSE {})
            \cup (IF source.color # new_values.color THEN {"repaint"} ELSE {})
    IN StyleDifference(damage, IF damage = {} THEN Unchanged ELSE Changed)

\* A difference that does not treat two display:none styles apart.
compute_style_difference_without_none_case(source, old_values, new_values, pseudo) ==
    IF IsSome(source)
    THEN RestyleDamage_compute_style_difference(Unwrap(source), new_values)
    ELSE IF IsSome(pseudo) /\ is_before_or_after(Unwrap(pseudo))
    THEN (IF (old_values.display = "none" \/ old_values.ineffective_content)
              /\ (new_values.display = "none" \/ new_values.ineffective_content)
          THEN StyleDifference(RestyleDamage_empty, Unchanged)
          ELSE StyleDifference(RestyleDamage_reconstruct, Changed))
    ELSE StyleDifference(RestyleDamage_reconstruct, Changed)

\* A difference that tries the display:none case before the damage source.
compute_style_difference_fallback_first(source, old_values, new_values, pseudo) ==
    IF new_values.display = "none" /\ old_values.display = "none"
    THEN StyleDifference(RestyleDamage_empty, Unchanged)
    ELSE IF IsSome(source)
    THEN RestyleDamage_compute_style_difference(Unwrap(source), new_values)
    ELSE IF IsSome(pseudo) /\ is_before_or_after(Unwrap(pseudo))
    THEN (IF (old_values.display = "none" \/ old_values.ineffective_content)
              /\ (new_values.display = "none" \/ new_values.ineffective_content)
          THEN StyleDifference(RestyleDamage_empty, Unchanged)
          ELSE StyleDifference(RestyleDamage_reconstruct, Changed))
    ELSE StyleDifference(RestyleDamage_reconstruct, Changed)

\* A difference that looks at the display of a ::before or ::after only.
compute_style_difference_display_only(source, old_values, new_values, pseudo) ==
    IF IsSome(source)
    THEN RestyleDamage_compute_style_difference(Unwrap(source), new_values)
    ELSE IF new_values.display = "none" /\ old_values.display = "none"
    THEN StyleDifference(RestyleDamage_empty, Unchanged)
    ELSE StyleDifference(RestyleDamage_reconstruct, Changed)

\* A difference that takes the remaining cases for unchanged.
compute_style_difference_lenient(source, old_values, new_values, pseudo) ==
    IF IsSome(source)
    THEN RestyleDamage_compute_style_difference(Unwrap(source), new_values)
    ELSE IF new_values.display = "none" /\ old_values.display = "none"
    THEN StyleDifference(RestyleDamage_empty, Unchanged)
    ELSE IF IsSome(pseudo) /\ is_before_or_after(Unwrap(pseudo))
    THEN (IF (old_values.display = "none" \/ old_values.ineffective_content)
              /\ (new_values.display = "none" \/ new_values.ineffective_content)
          THEN StyleDifference(RestyleDamage_empty, Unchanged)
          ELSE StyleDifference(RestyleDamage_reconstruct, Changed))
    ELSE StyleDifference(RestyleDamage_empty, Unchanged)

\* compute_style_difference, source being the damage source (an Option)
compute_style_difference_from(source, old_values, new_values, pseudo) ==
    LET new_style_is_display_none == new_values.display = "none"
        old_style_is_display_none == old_values.display = "none"
    IN
    IF IsSome(source)
    THEN RestyleDamage_compute_style_difference(Unwrap(source), new_values)
    ELSE IF new_style_is_display_none /\ old_style_is_display_none
    THEN StyleDifference(RestyleDamage_empty, Unchanged)
    ELSE IF IsSome(pseudo) /\ is_before_or_after(Unwrap(pseudo))
    THEN (IF (old_style_is_display_none \/ old_values.ineffective_content)
              /\ (new_style_is_display_none \/ new_values.ineffective_content)
          THEN StyleDifference(RestyleDamage_empty, Unchanged)
          ELSE StyleDifference(RestyleDamage_reconstruct, Changed))
    ELSE StyleDifference(RestyleDamage_reconstruct, Changed)

compute_style_difference(self, old_values, new_values, pseudo) ==
    compute_style_difference_from(
        existing_style_for_restyle_damage(self, old_values, pseudo),
        old_values, new_values, pseudo)

\* A damage that is replaced by the difference.
apply_difference_replacing(restyle, difference) ==
    [restyle |-> [restyle EXCEPT !.damage = difference.damage],
     child |-> ChildCascadeRequirementFrom(difference.change)]

\* The Gecko way of applying the difference, in every build.
apply_difference_as_gecko(restyle, difference) ==
    IF ctx.for_reconstruct
    THEN [restyle |-> restyle, child |-> MustCascade]
    ELSE [restyle |-> IF ~(RestyleDamage_reconstruct \subseteq restyle.damage_handled
                           \/ RestyleDamage_reconstruct \subseteq restyle.damage)
                      THEN [restyle EXCEPT !.damage = @ \cup difference.damage]
                      ELSE restyle,
          child |-> ChildCascadeRequirementFrom(difference.change)]

\* accumulate_damage_for once the difference is computed: [restyle, child],
\* in the Gecko and in the Servo build
apply_difference(restyle, difference) ==
    LET skip_applying_damage ==
            RestyleDamage_reconstruct \subseteq restyle.damage_handled
            \/ RestyleDamage_reconstruct \subseteq restyle.damage
    IN
    IF ctx.gecko
    THEN IF ctx.for_reconstruct
         THEN [restyle |-> restyle, child |-> MustCascade]
         ELSE [restyle |-> IF ~skip_applying_damage
                           THEN [restyle EXCEPT !.damage = @ \cup difference.damage]
                           ELSE restyle,
               child |-> ChildCascadeRequirementFrom(difference.change)]
    ELSE [restyle |-> [restyle EXCEPT !.damage = @ \cup difference.damage],
          child |-> ChildCascadeRequirementFrom(difference.change)]

accumulate_damage_for(self, restyle, old_values, new_values, pseudo) ==
    apply_difference(restyle,
        compute_style_difference(self, old_values, new_values, pseudo))

SomeRestyle(r) == [restyle |-> Some(r.restyle), child |-> r.child]

\* An accumulate_damage that lets the children skip the cascade when there
\* is nothing to compare.
accumulate_damage_skipping(self, restyle, old_values, new_values, pseudo) ==
    IF IsNone(restyle) \/ IsNone(old_values)
    THEN [restyle |-> restyle, child |-> CanSkipCascade]
    ELSE IF /\ ctx.gecko
            /\ IsSome(pseudo) /\ is_before_or_after(Unwrap(pseudo))
            /\ IsSome(existing_style_for_restyle_damage(
                           self, Unwrap(old_values), pseudo))
    THEN [restyle |-> restyle, child |-> CanSkipCascade]
    ELSE SomeRestyle(accumulate_damage_for(self, Unwrap(restyle),
                         Unwrap(old_values), new_values, pseudo))

\* accumulate_damage: restyle and old_values are Options; the result is
\* [restyle, child] with restyle the Option as the call leaves it.
accumulate_damage(self, restyle, old_values, new_values, pseudo) ==
    IF IsNone(restyle) THEN [restyle |-> restyle, child |-> MustCascade]
    ELSE IF IsNone(old_values) THEN [restyle |-> restyle, child |-> MustCascade]
    ELSE LET is_existing_before_or_after ==
                 /\ ctx.gecko
                 /\ IsSome(pseudo) /\ is_before_or_after(Unwrap(pseudo))
                 /\ IsSome(existing_style_for_restyle_damage(
                                self, Unwrap(old_values), pseudo))
         IN IF is_existing_before_or_after
            THEN [restyle |-> restyle, child |-> CanSkipCascade]
            ELSE SomeRestyle(accumulate_damage_for(self, Unwrap(restyle),
                                 Unwrap(old_values), new_values, pseudo))

\* ------------------------------------------------------------- the lookup

\* The loop of share_style_if_possible from position i (1-based) on:
\* [hit, index, style, cache, info, should_clear_cache, tested, calls],
\* tested being the miss of every candidate tested, in order, and calls the
\* flags the tests handed to set_selector_flags.
ScanEnd(hit, index, style, c, inf, should_clear_cache, tested) ==
    [hit |-> hit, index |-> index, style |-> style, cache |-> c, info |-> inf,
     should_clear_cache |-> should_clear_cache, tested |-> tested, calls |-> <<>>]

RECURSIVE scan_candidates(_, _, _, _, _)
\* A loop in which only a Parent miss stops the scan.
scan_result_advancing(self, c, i, tested, r) ==
    IF r.ok
    THEN ScanEnd(TRUE, i - 1, r.style, [c EXCEPT ![i] = r.candidate], r.info,
                 FALSE, tested)
    ELSE IF r.miss = "Parent"
    THEN ScanEnd(FALSE, 0, None, [c EXCEPT ![i] = r.candidate], r.info, TRUE,
                 Append(tested, r.miss))
    ELSE scan_candidates(self, [c EXCEPT ![i] = r.candidate], i + 1, r.info,
                         Append(tested, r.miss))

\* A loop that any miss stops.
scan_result_stopping(self, c, i, tested, r) ==
    IF r.ok
    THEN ScanEnd(TRUE, i - 1, r.style, [c EXCEPT ![i] = r.candidate], r.info,
                 FALSE, tested)
    ELSE ScanEnd(FALSE, 0, None, [c EXCEPT ![i] = r.candidate], r.info,
                 r.miss = "Parent", Append(tested, r.miss))

\* The match on the result r of testing the candidate at position i.
scan_result(self, c, i, tested, r) ==
    IF r.ok
    THEN ScanEnd(TRUE, i - 1, r.style, [c EXCEPT ![i] = r.candidate], r.info,
                 FALSE, tested)
    ELSE IF r.miss = "Parent"
    THEN ScanEnd(FALSE, 0, None, [c EXCEPT ![i] = r.candidate], r.info, TRUE,
                 Append(tested, r.miss))
    ELSE IF r.miss \in {"PresHints", "Revalidation"}
    THEN ScanEnd(FALSE, 0, None, [c EXCEPT ![i] = r.candidate], r.info, FALSE,
                 Append(tested, r.miss))
    ELSE scan_candidates(self, [c EXCEPT ![i] = r.candidate], i + 1, r.info,
                         Append(tested, r.miss))

scan_candidates(self, c, i, inf, tested) ==
    IF i > Len(c)
    THEN ScanEnd(FALSE, 0, None, c, inf, FALSE, tested)
    ELSE LET r == share_style_with_candidate_if_possible(self, c[i], inf)
         IN [scan_result(self, c, i, tested, r) EXCEPT !.calls = r.calls \o @]

\* A return without a scan that has taken the old values out already.
NotScannedTaken(c, inf, d) ==
    [result |-> CannotShare, cache |-> c, info |-> inf, tested |-> <<>>,
     data |-> IF has_styles(d)
              THEN [d EXCEPT !.styles = Some([Unwrap(@) EXCEPT !.primary.values = None])]
              ELSE d,
     calls |-> <<>>]

\* share_style_if_possible returning before the scan of the candidates
NotScanned(c, inf, d) ==
    [result |-> CannotShare, cache |-> c, info |-> inf, tested |-> <<>>,
     data |-> d, calls |-> <<>>]

\* A hit that also moves the matched entry to the front of the cache.
style_was_shared_touching(s, acc) ==
    [result |-> StyleWasShared(s.index, acc.child),
     cache |-> touch(s.cache, s.index), info |-> s.info, tested |-> s.tested,
     data |-> [styles |-> Some(ElementStylesNew(Unwrap(s.style))),
               restyle |-> acc.restyle],
     calls |-> s.calls]

\* A hit that always asks for the cascade of the children.
style_was_shared_must_cascade(s, acc) ==
    [result |-> StyleWasShared(s.index, MustCascade),
     cache |-> s.cache, info |-> s.info, tested |-> s.tested,
     data |-> [styles |-> Some(ElementStylesNew(Unwrap(s.style))),
               restyle |-> acc.restyle],
     calls |-> s.calls]

\* The hit of share_style_if_possible: the damage is accumulated (acc) and
\* the element gets new styles made of the shared style alone.
style_was_shared(s, acc) ==
    [result |-> StyleWasShared(s.index, acc.child),
     cache |-> s.cache, info |-> s.info, tested |-> s.tested,
     data |-> [styles |-> Some(ElementStylesNew(Unwrap(s.style))),
               restyle |-> acc.restyle],
     calls |-> s.calls]

\* share_style_if_possible once the candidates are scanned (s)
share_scanned(self, d, s) ==
    IF s.hit
    THEN style_was_shared(s,
             accumulate_damage(self, d.restyle,
                               IF has_styles(d) THEN styles(d).primary.values
                               ELSE None,
                               values(Unwrap(s.style)), None))
    ELSE [result |-> CannotShare,
          cache |-> IF s.should_clear_cache THEN clear(s.cache) ELSE s.cache,
          info |-> s.info, tested |-> s.tested, data |-> d, calls |-> s.calls]

\* Whether share_style_if_possible gets to test candidates for self: none
\* of its early returns is taken.
tests_candidates(self) ==
    /\ ~ctx.disable_style_sharing_cache
    /\ IsSome(parent_element(self))
    /\ ~is_native_anonymous(self)
    /\ IsNone(style_attribute(self))
    /\ ~has_id_attr(self)

\* share_style_if_possible(self, context, data): [result, cache, info, data,
\* tested, calls], data being the ElementData of self as the call leaves it.
share_style_if_possible(self, c, inf, d) ==
    IF ctx.disable_style_sharing_cache
    THEN NotScanned(c, inf, d)
    ELSE IF IsNone(parent_element(self)) THEN NotScanned(c, inf, d)
    ELSE IF is_native_anonymous(self) THEN NotScanned(c, inf, d)
    ELSE IF IsSome(style_attribute(self)) THEN NotScanned(c, inf, d)
    ELSE IF has_id_attr(self) THEN NotScanned(c, inf, d)
    ELSE share_scanned(self, d, scan_candidates(self, c, 1, inf, <<>>))

\* ------------------------------------------------------------ the rule tree

\* A rule node: the declarations selector matching found, and the block at
\* each of the levels a restyle can replace on its own.
RuleNode(matched) ==
    [matched |-> matched, animations |-> None, transitions |-> None,
     smil_override |-> None, style_attribute_normal |-> None,
     style_attribute_important |-> None]

\* The field of a rule node that holds the block of a cascade level.
LevelField(level) ==
    CASE level = "Animations" -> "animations"
      [] level = "Transitions" -> "transitions"
      [] level = "SMILOverride" -> "smil_override"
      [] level = "StyleAttributeNormal" -> "style_attribute_normal"
      [] OTHER -> "style_attribute_important"

\* CascadeLevel::is_important, for the levels above
is_important(level) == level = "StyleAttributeImportant"

\* What the declarations of a rule node specify.
RuleProps(matched) ==
    CASE matched = "plain" ->
            [display |-> "block", transitions |-> FALSE, animations |-> FALSE,
             ineffective_content |-> TRUE, color |-> "inherit"]
      [] matched = "red" ->
            [display |-> "block", transitions |-> FALSE, animations |-> FALSE,
             ineffective_content |-> TRUE, color |-> "red"]
      [] matched = "transitions" ->
            [display |-> "block", transitions |-> TRUE, animations |-> FALSE,
             ineffective_content |-> TRUE, color |-> "inherit"]
      [] matched = "animations" ->
            [display |-> "block", transitions |-> FALSE, animations |-> TRUE,
             ineffective_content |-> TRUE, color |-> "inherit"]
      [] matched = "hidden" ->
            [display |-> "none", transitions |-> FALSE, animations |-> FALSE,
             ineffective_content |-> TRUE, color |-> "inherit"]
      [] matched \in {"content", "quoted"} ->
            [display |-> "inline", transitions |-> FALSE, animations |-> FALSE,
             ineffective_content |-> FALSE, color |-> "inherit"]
      [] OTHER ->
            [display |-> "contents", transitions |-> FALSE, animations |-> FALSE,
             ineffective_content |-> TRUE, color |-> "inherit"]

\* The !important declarations of a rule node.
important_rules(rules) == IF rules.matched = "red" THEN {"color"} ELSE {}

\* RuleTree::update_rule_at_level: Some(node) when the level changes
update_rule_at_level(level, pdb, path) ==
    LET node == [path EXCEPT ![LevelField(level)] = pdb]
    IN IF node = path THEN None ELSE Some(node)

\* properties::cascade, in a new Arc at address ptr
cascade(rule_node, style_to_inherit_from, ptr) ==
    LET props == RuleProps(rule_node.matched)
        inherited == IF IsSome(style_to_inherit_from)
                     THEN Unwrap(style_to_inherit_from).color ELSE "black"
        color == IF IsSome(rule_node.animations) THEN "animated"
                 ELSE IF IsSome(rule_node.transitions) THEN "transitioning"
                 ELSE IF props.color = "inherit" THEN inherited ELSE props.color
    IN [ptr |-> ptr, display |-> props.display, transitions |-> props.transitions,
        animations |-> props.animations,
        ineffective_content |-> props.ineffective_content, color |-> color]

\* ---------------------------------------------------------- element data ops

new_partial(rules) == [rules |-> rules, values |-> None]

\* ElementData::set_primary_rules: [data, changed]
set_primary_rules(d, rules) ==
    IF ~has_styles(d)
    THEN [data |-> [d EXCEPT !.styles = Some(ElementStylesNew(new_partial(rules)))],
          changed |-> TRUE]
    ELSE IF styles(d).primary.rules = rules
    THEN [data |-> d, changed |-> FALSE]
    ELSE [data |-> [d EXCEPT !.styles = Some([styles(d) EXCEPT !.primary.rules = rules])],
          changed |-> TRUE]

\* ElementData::important_rules_are_different
important_rules_are_different(d, rules) ==
    important_rules(styles(d).primary.rules) # important_rules(rules)

is_display_none(st) == values(st.primary).display = "none"

implemented_pseudo_element(e) == dom[e].implemented_pseudo
get_animation_rules(e) == dom[e].animation_rules
get_animation_rule_by_cascade(e, level) ==
    IF level = "Animations" THEN get_animation_rules(e)[1]
    ELSE get_animation_rules(e)[2]
get_smil_override(e) == dom[e].smil_override
has_animations(e) == dom[e].has_animations
is_eager(pseudo) == pseudo \in EagerPseudos
inheritance_parent(e) == parent_element(e)

\* ------------------------------------------------------------- the cascade

\* ComputedValues::is_display_contents
is_display_contents(v) == v.display = "contents"

\* A turn of the loop of layout_parent that returns the parent whatever its
\* display.
layout_parent_turn_stopping(el) ==
    LET parent == parent_element(el)
    IN IF IsNone(parent) THEN [current |-> el, returns |-> TRUE]
       ELSE [current |-> Unwrap(parent), returns |-> TRUE]

\* One turn of the loop of layout_parent, entered with current being el:
\* [current, returns], the element current is after the turn and whether
\* the turn returns it.
layout_parent_turn(el) ==
    LET parent == parent_element(el)
    IN IF IsNone(parent) THEN [current |-> el, returns |-> TRUE]
       ELSE [current |-> Unwrap(parent),
             returns |-> ~is_display_contents(
                             values(styles(data[Unwrap(parent)]).primary))]

\* layout_parent: the element its loop returns
RECURSIVE layout_parent(_)
layout_parent(self) ==
    LET turn == layout_parent_turn(self)
    IN IF turn.returns THEN turn.current ELSE layout_parent(turn.current)

\* TElement::borrow_data: the ElementData of the element, None for an
\* element that has none
borrow_data(e) == IF e \in DOMAIN data THEN Some(data[e]) ELSE None

\* The inherited values cascade_with_rules grabs: the values the properties
\* are inherited from, and the element and the values that stand for the
\* parent in layout. In the normal mode there is nothing to inherit from
\* only without a parent or without ElementData of the parent; styles() of
\* ElementData that holds no styles has no value (the call panics).
inheritance_sources(self, primary_style, inherit_mode) ==
    LET parent_el == IF inherit_mode = "Normal" THEN inheritance_parent(self)
                     ELSE Some(self)
        parent_data == IF IsSome(parent_el) THEN borrow_data(Unwrap(parent_el))
                       ELSE None
        style_to_inherit_from ==
            IF inherit_mode = "Normal"
            THEN (IF IsSome(parent_data)
                  THEN Some(values(styles(Unwrap(parent_data)).primary))
                  ELSE None)
            ELSE Some(values(primary_style))
        contents == IsSome(style_to_inherit_from)
                        /\ is_display_contents(Unwrap(style_to_inherit_from))
        layout_parent_el == IF contents THEN Some(layout_parent(Unwrap(parent_el)))
                            ELSE parent_el
    IN [style_to_inherit_from |-> style_to_inherit_from,
        layout_parent_el |-> layout_parent_el,
        layout_parent_style |->
            IF contents
            THEN Some(values(styles(data[Unwrap(layout_parent_el)]).primary))
            ELSE style_to_inherit_from]

\* cascade_with_rules: the values the cascade gives. The layout parent
\* style is an input of the cascade for the fixup of the display of flex
\* and grid items, which is not among the properties of the values here.
cascade_with_rules(self, rule_node, primary_style, inherit_mode, ptr) ==
    cascade(rule_node,
            inheritance_sources(self, primary_style, inherit_mode).style_to_inherit_from,
            ptr)

\* RuleTree::remove_animation_rules: the rule node without the rules of the
\* animation and transition levels
remove_animation_rules(rule_node) ==
    [rule_node EXCEPT !.animations = None, !.transitions = None]

\* A get_base_style that cascades whatever the rule node holds.
get_base_style_cascading(self, primary_style, pseudo_style, ptr) ==
    cascade_with_rules(self,
        remove_animation_rules(IF IsSome(pseudo_style) THEN Unwrap(pseudo_style).rules
                               ELSE primary_style.rules),
        primary_style, "Normal", ptr)

\* get_base_style: the computed values without animation and transition
\* rules; a cascade puts them in a new Arc at address ptr.
get_base_style(self, primary_style, pseudo_style, ptr) ==
    LET relevant_style == IF IsSome(pseudo_style) THEN Unwrap(pseudo_style)
                          ELSE primary_style
        rule_node == relevant_style.rules
        without_animation_rules == remove_animation_rules(rule_node)
    IN IF without_animation_rules = rule_node
       THEN Unwrap(relevant_style.values)
       ELSE cascade_with_rules(self, without_animation_rules, primary_style,
                               "Normal", ptr)

\* A cascade_internal that cascades for every element.
cascade_internal_recascading(self, primary_style, eager_pseudo_style, ptr) ==
    cascade_with_rules(self,
        IF IsSome(eager_pseudo_style) THEN Unwrap(eager_pseudo_style).rules
        ELSE primary_style.rules,
        primary_style,
        IF IsSome(eager_pseudo_style) THEN "FromPrimaryStyle" ELSE "Normal", ptr)

cascade_internal(self, primary_style, eager_pseudo_style, ptr) ==
    LET pseudo == implemented_pseudo_element(self)
        rule_node == IF IsSome(eager_pseudo_style)
                     THEN Unwrap(eager_pseudo_style).rules ELSE primary_style.rules
        inherit_mode == IF IsSome(eager_pseudo_style) THEN "FromPrimaryStyle"
                        ELSE "Normal"
    IN IF IsSome(pseudo) /\ is_eager(Unwrap(pseudo))
          /\ get_animation_rules(self) = <<None, None>>
       THEN values(Unwrap(styles(data[Unwrap(parent_element(self))])
                              .pseudos[Unwrap(pseudo)]))
       ELSE cascade_with_rules(self, rule_node, primary_style, inherit_mode, ptr)

\* TElement::has_css_animations and has_css_transitions (Gecko)
has_css_animations(e) == dom[e].has_css_animations
has_css_transitions(e) == dom[e].has_css_transitions
\* TElement::might_need_transitions_update (Gecko): never without old values
might_need_transitions_update(e, old_values, new_values) ==
    IsSome(old_values) /\ dom[e].might_need_transitions_update
\* TElement::needs_transitions_update (Gecko): whether a property that
\* transitions differs between the two value sets
needs_transitions_update(e, before_change_style, after_change_style) ==
    dom[e].needs_transitions_update

\* RuleTree::remove_transition_rule_if_applicable: the rule node without
\* the rule of the transition level
remove_transition_rule_if_applicable(rule_node) ==
    [rule_node EXCEPT !.transitions = None]

\* get_after_change_style (Gecko): None when the rule node holds no
\* transition rule, else the values cascaded without it, in a new Arc at
\* address ptr.
get_after_change_style(self, primary_style, ptr) ==
    LET rule_node == primary_style.rules
        without_transition_rules == remove_transition_rule_if_applicable(rule_node)
    IN IF without_transition_rules = rule_node THEN None
       ELSE Some(cascade_with_rules(self, without_transition_rules, primary_style,
                                    "Normal", ptr))

\* needs_animations_update (Gecko)
needs_animations_update(self, old_values, new_values) ==
    LET has_new_animation_style == new_values.animations
    IN IF IsNone(old_values) THEN has_new_animation_style
       ELSE \/ Unwrap(old_values).animations # new_values.animations
            \/ (Unwrap(old_values).display = "none" /\ new_values.display # "none"
                    /\ has_new_animation_style)
            \/ (Unwrap(old_values).display # "none" /\ new_values.display = "none"
                    /\ has_css_animations(self))

CSS_ANIMATIONS == "CSS_ANIMATIONS"
CSS_TRANSITIONS == "CSS_TRANSITIONS"
EFFECT_PROPERTIES == "EFFECT_PROPERTIES"
CASCADE_RESULTS == "CASCADE_RESULTS"

\* process_animations of the Gecko build: the old values stay as they are;
\* the new values are replaced by the after-change style when the
\* transitions need an update and the rule node held a transition rule;
\* task is the SequentialTask pushed for the sequential phase, if any.
process_animations_gecko(self, old_values, new_values, primary_style, important_rules_changed) ==
    LET might == might_need_transitions_update(self, old_values, new_values)
        after_change_style ==
            IF might /\ has_css_transitions(self)
            THEN get_after_change_style(self, primary_style, <<self, "after_change">>)
            ELSE None
        needs == might /\ needs_transitions_update(self, Unwrap(old_values),
                              IF IsSome(after_change_style)
                              THEN Unwrap(after_change_style) ELSE new_values)
        before_change_style == IF needs THEN old_values ELSE None
        tasks == (IF needs_animations_update(self, old_values, new_values)
                  THEN {CSS_ANIMATIONS} ELSE {})
                 \cup (IF needs THEN {CSS_TRANSITIONS} ELSE {})
                 \cup (IF has_animations(self) THEN {EFFECT_PROPERTIES} ELSE {})
                 \cup (IF has_animations(self) /\ important_rules_changed
                       THEN {CASCADE_RESULTS} ELSE {})
    IN [old_values |-> old_values,
        new_values |-> IF needs /\ IsSome(after_change_style)
                       THEN Unwrap(after_change_style) ELSE new_values,
        task |-> IF tasks # {}
                 THEN Some([el |-> self, before_change_style |-> before_change_style,
                            tasks |-> tasks])
                 ELSE None]

\* context.running_animations.get(&this_opaque): the entry of the element
\* in the running animations all the threads share.
running_animations_get(self) ==
    IF dom[self].running_animation THEN Some("running") ELSE None

\* What update_animations_for_cascade reads of the running animations: had
\* is whether it found an entry under the read lock, which it releases, and
\* entry what it then finds under the write lock. Another thread may take
\* the write lock between the two.
RunningAnimationsRead(had, entry) == [had |-> had, entry |-> entry]

\* The two reads with no other thread in between.
running_animations_read(self) ==
    RunningAnimationsRead(IsSome(running_animations_get(self)),
                          running_animations_get(self))

\* update_animations_for_cascade unwraps the entry it saw under the read
\* lock: it panics when the entry is gone.
update_animations_panics(read) == read.had /\ IsNone(read.entry)

\* update_animations_for_cascade: the style brought up to date with the
\* animations that are running, which are those of the unwrapped entry.
update_animations_for_cascade(self, read, style) ==
    IF read.had
    THEN [style EXCEPT !.color = IF Unwrap(read.entry) = "running"
                                 THEN "animated" ELSE @]
    ELSE style

\* process_animations of the Servo build: update_animations_for_cascade
\* brings the old values up to date with the animations that are running,
\* and start_transitions_if_applicable resets the new values to the old
\* ones for a property whose transition it starts.
process_animations_servo(self, read, old_values, new_values) ==
    LET old == IF IsSome(old_values)
               THEN Some(update_animations_for_cascade(self, read,
                                                       Unwrap(old_values)))
               ELSE old_values
    IN [old_values |-> old,
        new_values |-> IF dom[self].starts_transition /\ IsSome(old)
                       THEN [new_values EXCEPT !.color = Unwrap(old).color]
                       ELSE new_values,
        task |-> None]

\* The animation and transition hook: [old_values, new_values, task] as it
\* leaves them; read is what the Servo build reads of the running
\* animations.
process_animations(self, read, old_values, new_values, primary_style, important_rules_changed) ==
    IF ctx.gecko
    THEN process_animations_gecko(self, old_values, new_values, primary_style,
                                  important_rules_changed)
    ELSE process_animations_servo(self, read, old_values, new_values)

\* An end of cascade_primary that always asks the children to cascade.
primary_cascaded_must_cascade(d, new_values, acc) ==
    [data |-> [styles |-> Some([styles(d) EXCEPT !.primary.values = Some(new_values)]),
               restyle |-> acc.restyle],
     child |-> MustCascade]

\* The end of cascade_primary: the damage is accumulated (acc) and the new
\* values are stored. [data, child]
primary_cascaded(d, new_values, acc) ==
    [data |-> [styles |-> Some([styles(d) EXCEPT !.primary.values = Some(new_values)]),
               restyle |-> acc.restyle],
     child |-> acc.child]

\* A cascade_primary that compares with the old values as they were held.
cascade_primary_hooked_against_held(self, d, hooked) ==
    primary_cascaded(d, hooked.new_values,
        accumulate_damage(self, d.restyle, styles(d).primary.values,
                          hooked.new_values, None))

\* cascade_primary from the animation hook on (hooked: the old and the new
\* values as the hook leaves them)
cascade_primary_hooked(self, d, hooked) ==
    primary_cascaded(d, hooked.new_values,
        accumulate_damage(self, d.restyle, hooked.old_values,
                          hooked.new_values, None))

\* cascade_primary from the cascade on (cascaded: the values it produced)
cascade_primary_cascaded(self, d, read, old_values, cascaded, important_rules_changed) ==
    cascade_primary_hooked(self, d,
        IF ~ctx.for_animation_only
        THEN process_animations(self, read, old_values, cascaded,
                                [styles(d).primary EXCEPT !.values = None],
                                important_rules_changed)
        ELSE [old_values |-> old_values, new_values |-> cascaded, task |-> None])

\* Whether cascade_primary gets to the write lock of
\* update_animations_for_cascade: in the Servo build, outside an
\* animation-only traversal, for an element that held values and whose
\* entry was found under the read lock.
takes_write_lock(self, d) ==
    /\ ~ctx.gecko /\ ~ctx.for_animation_only
    /\ IsSome(styles(d).primary.values)
    /\ IsSome(running_animations_get(self))

\* cascade_primary that read the running animations as read: [data, child]
cascade_primary_read(self, d, read, important_rules_changed) ==
    cascade_primary_cascaded(self, d, read, styles(d).primary.values,
        cascade_internal(self, [styles(d).primary EXCEPT !.values = None], None,
                         <<self, "primary">>),
        important_rules_changed)

\* cascade_primary with no other thread between its two reads of the
\* running animations: [data, child]
cascade_primary(self, d, important_rules_changed) ==
    cascade_primary_read(self, d, running_animations_read(self),
                         important_rules_changed)

\* cascade_primary panicked: the values it took are dropped with it.
cascade_primary_panicked(d) ==
    [d EXCEPT !.styles = Some([styles(d) EXCEPT !.primary.values = None])]

\* An end of cascade_eager_pseudo that leaves the values taken.
eager_pseudo_cascaded_taken(d, pseudo, new_values, acc) ==
    [styles |-> Some([styles(d) EXCEPT
                        !.pseudos[pseudo] = Some([Unwrap(@) EXCEPT !.values = None])]),
     restyle |-> acc.restyle]

\* The end of cascade_eager_pseudo: the ElementData after the call
eager_pseudo_cascaded(d, pseudo, new_values, acc) ==
    [styles |-> Some([styles(d) EXCEPT
                        !.pseudos[pseudo] =
                            Some([Unwrap(@) EXCEPT !.values = Some(new_values)])]),
     restyle |-> acc.restyle]

cascade_eager_pseudo_cascaded(self, d, pseudo, old_values, new_values) ==
    eager_pseudo_cascaded(d, pseudo, new_values,
        accumulate_damage(self, d.restyle, old_values, new_values, Some(pseudo)))

\* cascade_eager_pseudo: the ElementData after the call
cascade_eager_pseudo(self, d, pseudo) ==
    cascade_eager_pseudo_cascaded(self, d, pseudo,
        Unwrap(styles(d).pseudos[pseudo]).values,
        cascade_internal(self, styles(d).primary,
                         Some([Unwrap(styles(d).pseudos[pseudo]) EXCEPT !.values = None]),
                         <<self, pseudo>>))

\* The order each_eagerly_cascaded_pseudo_element visits the pseudos in.
EagerPseudoOrder == <<"before", "after">>

RECURSIVE cascade_pseudos_from(_, _, _)
cascade_pseudos_from(self, d, i) ==
    IF i > Len(EagerPseudoOrder) THEN d
    ELSE IF IsSome(styles(d).pseudos[EagerPseudoOrder[i]])
    THEN cascade_pseudos_from(self, cascade_eager_pseudo(self, d, EagerPseudoOrder[i]),
                              i + 1)
    ELSE cascade_pseudos_from(self, d, i + 1)

cascade_pseudos(self, d) == cascade_pseudos_from(self, d, 1)

\* --------------------------------------------------------------- matching

\* Stylist::push_applicable_declarations for the primary style: the
\* relations selector matching reports for the element.
matched_relations(e) ==
    dom[e].relations
        \cup (IF IsSome(style_attribute(e)) THEN {AFFECTED_BY_STYLE_ATTRIBUTE} ELSE {})
        \cup (IF has_presentational_hints(e)
              THEN {AFFECTED_BY_PRESENTATIONAL_HINTS} ELSE {})

\* compute_rule_node of the declarations matched for the primary style
compute_rule_node(e) ==
    [RuleNode(dom[e].matched) EXCEPT
        !.animations = get_animation_rules(e)[1],
        !.transitions = get_animation_rules(e)[2],
        !.smil_override = get_smil_override(e),
        !.style_attribute_normal = style_attribute(e),
        !.style_attribute_important = style_attribute(e)]

\* The rule node with the rule spliced in at the level, when there is one.
Spliced(rules, updated) == IF IsSome(updated) THEN Unwrap(updated) ELSE rules

Splice(level, rule, rules) ==
    IF IsSome(rule) THEN Spliced(rules, update_rule_at_level(level, rule, rules))
    ELSE rules

\* The parent's rule node for the pseudo-element, as it is.
eager_pseudo_rules_unspliced(self, pseudo_style) == pseudo_style.rules

\* The rule node of an element that implements an eager pseudo-element.
eager_pseudo_rules(self, pseudo_style) ==
    Splice("Transitions", get_animation_rules(self)[2],
           Splice("Animations", get_animation_rules(self)[1], pseudo_style.rules))

is_eager_pseudo(self) ==
    IsSome(implemented_pseudo_element(self))
        /\ is_eager(Unwrap(implemented_pseudo_element(self)))

\* The end of match_primary: the rules are stored (set). [data, relations,
\* rule_nodes_changed, important_rules_overriding_animation_changed, calls],
\* calls being the flags selector matching handed to set_selector_flags.
RulesMatchedResult(set, relations, important_rules_changed) ==
    [data |-> set.data, relations |-> relations,
     rule_nodes_changed |-> set.changed,
     important_rules_overriding_animation_changed |-> important_rules_changed,
     calls |-> <<>>]

\* A match_primary that compares the important rules once the new rule
\* node is stored.
match_primary_comparing_stored(self, d, rules, relations) ==
    LET set == set_primary_rules(d, rules)
    IN RulesMatchedResult(set, relations,
           has_animations(self) /\ has_styles(set.data)
               /\ important_rules_are_different(set.data, rules))

match_primary_with(self, d, rules, relations) ==
    RulesMatchedResult(set_primary_rules(d, rules), relations,
        has_animations(self) /\ has_styles(d)
            /\ important_rules_are_different(d, rules))

match_primary(self, d) ==
    IF is_eager_pseudo(self)
    THEN match_primary_with(self, d,
             eager_pseudo_rules(self,
                 Unwrap(styles(data[Unwrap(parent_element(self))])
                            .pseudos[Unwrap(implemented_pseudo_element(self))])),
             {})
    ELSE [match_primary_with(self, d, compute_rule_node(self),
                             matched_relations(self))
             EXCEPT !.calls = primary_selector_flags(self)]

WithPseudo(d, pseudo, style) ==
    [d EXCEPT !.styles = Some([styles(d) EXCEPT !.pseudos[pseudo] = style])]

\* One pseudo of match_pseudos; acc is [data, rule_nodes_changed,
\* matches_different_pseudos], new_rules what matching found for the pseudo
\* and stored the style the element holds for it.
match_pseudo_with(acc, pseudo, new_rules, stored) ==
    IF IsSome(new_rules)
    THEN IF IsSome(stored)
         THEN [data |-> WithPseudo(acc.data, pseudo,
                            Some([Unwrap(stored) EXCEPT
                                     !.rules = RuleNode(Unwrap(new_rules))])),
               rule_nodes_changed |-> Unwrap(stored).rules # RuleNode(Unwrap(new_rules)),
               matches_different_pseudos |-> acc.matches_different_pseudos]
         ELSE [data |-> WithPseudo(acc.data, pseudo,
                            Some(new_partial(RuleNode(Unwrap(new_rules))))),
               rule_nodes_changed |-> acc.rule_nodes_changed,
               matches_different_pseudos |-> TRUE]
    ELSE IF IsSome(stored)
    THEN [data |-> WithPseudo(acc.data, pseudo, None),
          rule_nodes_changed |-> acc.rule_nodes_changed,
          matches_different_pseudos |-> TRUE]
    ELSE acc

match_pseudo(self, acc, pseudo) ==
    match_pseudo_with(acc, pseudo, dom[self].pseudo_rules[pseudo],
                      styles(acc.data).pseudos[pseudo])

RECURSIVE match_pseudos_from(_, _, _)
match_pseudos_from(self, acc, i) ==
    IF i > Len(EagerPseudoOrder) THEN acc
    ELSE match_pseudos_from(self, match_pseudo(self, acc, EagerPseudoOrder[i]), i + 1)

\* An end of match_pseudos that marks nothing.
pseudos_matched_unmarked(acc) ==
    [data |-> acc.data,
     rule_nodes_changed |-> acc.matches_different_pseudos \/ acc.rule_nodes_changed,
     calls |-> <<>>]

\* The end of match_pseudos: [data, rule_nodes_changed, calls]
pseudos_matched(acc) ==
    IF acc.matches_different_pseudos
    THEN [data |-> IF has_restyle(acc.data)
                   THEN [acc.data EXCEPT !.restyle =
                            Some([Unwrap(@) EXCEPT !.damage =
                                     @ \cup RestyleDamage_reconstruct])]
                   ELSE acc.data,
          rule_nodes_changed |-> TRUE, calls |-> <<>>]
    ELSE [data |-> acc.data, rule_nodes_changed |-> acc.rule_nodes_changed,
          calls |-> <<>>]

\* match_pseudos: [data, rule_nodes_changed, calls], calls being the flags
\* selector matching handed to set_selector_flags.
match_pseudos(self, d) ==
    IF IsSome(implemented_pseudo_element(self))
    THEN [data |-> d, rule_nodes_changed |-> FALSE, calls |-> <<>>]
    ELSE [pseudos_matched(
              match_pseudos_from(self,
                  [data |-> d, rule_nodes_changed |-> FALSE,
                   matches_different_pseudos |-> FALSE], 1))
             EXCEPT !.calls = pseudo_selector_flags(self)]

\* RulesChanged
NORMAL_RULES_CHANGED == "NORMAL_RULES_CHANGED"
IMPORTANT_RULES_CHANGED == "IMPORTANT_RULES_CHANGED"

\* RestyleReplacements
RESTYLE_STYLE_ATTRIBUTE == "RESTYLE_STYLE_ATTRIBUTE"
RESTYLE_SMIL == "RESTYLE_SMIL"
RESTYLE_CSS_TRANSITIONS == "RESTYLE_CSS_TRANSITIONS"
RESTYLE_CSS_ANIMATIONS == "RESTYLE_CSS_ANIMATIONS"
for_animations == {RESTYLE_SMIL, RESTYLE_CSS_TRANSITIONS, RESTYLE_CSS_ANIMATIONS}

\* A replace_rule_node that reports every change as one of normal rules.
replace_rule_node_always_normal(level, pdb, acc, new_node) ==
    IF IsSome(new_node)
    THEN [rules |-> Unwrap(new_node),
          result |-> acc.result \cup {NORMAL_RULES_CHANGED}]
    ELSE acc

\* The closure replace_rule_node of replace_rules, new_node being what
\* update_rule_at_level returned: acc is [rules, result].
replace_rule_node(level, pdb, acc, new_node) ==
    IF IsSome(new_node)
    THEN [rules |-> Unwrap(new_node),
          result |-> acc.result \cup {IF is_important(level)
                                      THEN IMPORTANT_RULES_CHANGED
                                      ELSE NORMAL_RULES_CHANGED}]
    ELSE acc

replace_rule_node_at(level, pdb, acc) ==
    replace_rule_node(level, pdb, acc,
                      update_rule_at_level(level, pdb, acc.rules))

\* The levels replace_rules replaces for the animation hints, in its order.
replace_for_animations(self, replacements, acc) ==
    LET smil == IF RESTYLE_SMIL \in replacements
                THEN replace_rule_node_at("SMILOverride",
                                          get_smil_override(self), acc)
                ELSE acc
        transitions ==
            IF RESTYLE_CSS_TRANSITIONS \in replacements
            THEN replace_rule_node_at("Transitions",
                     get_animation_rule_by_cascade(self, "Transitions"), smil)
            ELSE smil
    IN IF RESTYLE_CSS_ANIMATIONS \in replacements
       THEN replace_rule_node_at("Animations",
                get_animation_rule_by_cascade(self, "Animations"), transitions)
       ELSE transitions

replace_for_style_attribute(self, acc) ==
    replace_rule_node_at("StyleAttributeImportant", style_attribute(self),
        replace_rule_node_at("StyleAttributeNormal", style_attribute(self), acc))

\* An end of replace_rules that drops the values of the replaced rules.
rules_replaced_clearing(d, acc) ==
    [data |-> [d EXCEPT !.styles =
                  Some([styles(d) EXCEPT
                          !.primary = [rules |-> acc.rules,
                                       values |-> IF acc.result = {} THEN @.values
                                                  ELSE None]])],
     result |-> acc.result]

\* The end of replace_rules: the primary rules are those of acc.
rules_replaced(d, acc) ==
    [data |-> [d EXCEPT !.styles =
                  Some([styles(d) EXCEPT !.primary.rules = acc.rules])],
     result |-> acc.result]

\* A replace_rules that goes on to the style attribute after the animation
\* hints.
replace_rules_going_on(self, replacements, d) ==
    LET start == [rules |-> styles(d).primary.rules, result |-> {}]
        animated == IF replacements \cap for_animations # {}
                    THEN replace_for_animations(self, replacements, start)
                    ELSE start
    IN rules_replaced(d,
           IF RESTYLE_STYLE_ATTRIBUTE \in replacements
           THEN replace_for_style_attribute(self, animated)
           ELSE animated)

\* replace_rules: [data, result]
replace_rules(self, replacements, d) ==
    rules_replaced(d,
        IF replacements \cap for_animations # {}
        THEN replace_for_animations(self, replacements,
                 [rules |-> styles(d).primary.rules, result |-> {}])
        ELSE IF RESTYLE_STYLE_ATTRIBUTE \in replacements
        THEN replace_for_style_attribute(self,
                 [rules |-> styles(d).primary.rules, result |-> {}])
        ELSE [rules |-> styles(d).primary.rules, result |-> {}])

\* The end of match_and_cascade: the style is offered to the cache.
\* [data, cache, info, child, relations, calls]
offer_to_cache(self, d, sharing, c, inf, relations, child) ==
    [data |-> d,
     cache |-> IF sharing = "Allow"
               THEN insert_if_possible(c, self, values(styles(d).primary),
                                       relations, inf)
               ELSE c,
     info |-> IF sharing = "Allow" THEN None ELSE inf,
     child |-> child,
     relations |-> relations,
     calls |-> <<>>]

\* An end of match_and_cascade that does not note the pseudo styles in the
\* relations.
pseudos_cascaded_unnoted(self, d, sharing, c, inf, relations, child) ==
    offer_to_cache(self, d, sharing, c, inf, relations, child)

\* match_and_cascade once the pseudos are matched and cascaded (d)
pseudos_cascaded(self, d, sharing, c, inf, relations, child) ==
    offer_to_cache(self, d, sharing, c, inf,
        IF \E p \in EagerPseudos : IsSome(styles(d).pseudos[p])
        THEN relations \cup {AFFECTED_BY_PSEUDO_ELEMENTS}
        ELSE relations,
        child)

match_and_cascade_pseudos(self, d) ==
    cascade_pseudos(self, match_pseudos(self, d).data)

\* match_and_cascade once the primary style is cascaded (primary)
primary_done(self, primary, sharing, c, inf, relations) ==
    [pseudos_cascaded(self,
         IF ~is_display_none(styles(primary.data))
         THEN match_and_cascade_pseudos(self, primary.data)
         ELSE primary.data,
         sharing, c, inf, relations, primary.child)
        EXCEPT !.calls = IF ~is_display_none(styles(primary.data))
                         THEN match_pseudos(self, primary.data).calls
                         ELSE <<>>]

\* match_and_cascade once the primary rules are matched (result)
primary_matched(self, result, sharing, c, inf) ==
    [primary_done(self,
         cascade_primary(self, result.data,
                         result.important_rules_overriding_animation_changed),
         sharing, c, inf, result.relations)
        EXCEPT !.calls = result.calls \o @]

\* match_and_cascade: [data, cache, info, child, relations, calls], calls
\* being the flags selector matching handed to set_selector_flags.
match_and_cascade(self, d, sharing, c, inf) ==
    primary_matched(self, match_primary(self, d), sharing, c, inf)

\* ------------------------------------------------------------ the documents

\* An element with no attribute, matched by plain rules only.
El(parent) ==
    [parent |-> parent, nac |-> FALSE, local_name |-> "span", namespace |-> "html",
     link |-> FALSE, uaar |-> TRUE, state |-> 0, id |-> None, style |-> FALSE,
     classes |-> <<>>, hints |-> FALSE, revalidation |-> {},
     matched |-> "plain", relations |-> {},
     pseudo_rules |-> [p \in EagerPseudos |-> None],
     implemented_pseudo |-> None, animation_rules |-> <<None, None>>,
     has_animations |-> FALSE, starts_transition |-> FALSE,
     has_css_animations |-> FALSE, has_css_transitions |-> FALSE,
     might_need_transitions_update |-> FALSE, needs_transitions_update |-> FALSE,
     frame |-> TRUE, pseudo_frames |-> {},
     selector_flags |-> {}, smil_override |-> None, running_animation |-> FALSE,
     selector_flag_calls |-> [revalidation |-> <<>>, primary |-> <<>>,
                              pseudos |-> <<>>]]

Unstyled == [styles |-> None, restyle |-> None]

\* Styled by this pass already: values at address ptr, nothing pending.
Styled(matched, ptr, color) ==
    [styles |-> Some(ElementStylesNew(
                   [rules |-> RuleNode(matched),
                    values |-> Some([ptr |-> ptr, display |-> RuleProps(matched).display,
                                     transitions |-> RuleProps(matched).transitions,
                                     animations |-> RuleProps(matched).animations,
                                     ineffective_content |-> TRUE, color |-> color])])),
     restyle |-> None]

\* Styled by an earlier pass, with a restyle pending.
Restyling(matched, ptr, color) ==
    [Styled(matched, ptr, color) EXCEPT
        !.restyle = Some([damage |-> {}, damage_handled |-> {}])]

\* A document: a root, two div parents, and their children. Matching the
\* revalidation selectors of the last child sets flags on it, on its parent
\* and on a sibling.
DocDom ==
    1 :> [El(None) EXCEPT !.local_name = "html"]
    @@ 2 :> [El(Some(1)) EXCEPT !.local_name = "div"]
    @@ 3 :> [El(Some(1)) EXCEPT !.local_name = "div"]
    @@ 4 :> El(Some(2))
    @@ 5 :> [El(Some(2)) EXCEPT
                !.classes = <<"x">>,
                !.selector_flag_calls.primary = <<<<5, {HAS_SLOW_SELECTOR}>>>>]
    @@ 6 :> El(Some(3))
    @@ 7 :> [El(Some(2)) EXCEPT !.hints = TRUE]
    @@ 8 :> [El(Some(2)) EXCEPT
                !.revalidation = {1},
                !.selector_flag_calls.revalidation =
                    <<<<4, {HAS_EMPTY_SELECTOR}>>,
                      <<8, {HAS_EMPTY_SELECTOR, HAS_SLOW_SELECTOR}>>>>]

\* The orders the traversal hands the elements of the document to the worker.
DocOrders ==
    {<<1, 2, 3, 4, 5, 6, 7, 8>>, <<1, 2, 4, 5, 3, 6, 8, 7>>,
     <<1, 3, 6, 2, 8, 4, 7, 5>>}

DocData ==
    [e \in DOMAIN DocDom |->
        IF e = 6 THEN Restyling("red", <<e, "old">>, "red") ELSE Unstyled]

Context(gecko, disabled) ==
    [gecko |-> gecko, disable_style_sharing_cache |-> disabled,
     for_reconstruct |-> FALSE, for_animation_only |-> FALSE]

\* The workers of the pool, none of them styling an element, their deferred
\* selector-flags maps empty.
Workers == {1, 2}
IdleWorkers == [w \in Workers |-> [styling |-> None, selector_flags |-> {}]]
\* The worker whose thread runs the traversal of the sequential
\* specifications; its deferred map is context.thread_local.selector_flags.
ThisThread == CHOOSE w \in Workers : \A v \in Workers : w <= v

\* Selector matching for the element self has handed calls to
\* set_selector_flags: flags are written in place and deferred.
FlagsSet(self, calls) ==
    LET r == flags_set(self, dom, workers[ThisThread].selector_flags, calls)
    IN /\ dom' = r.dom
       /\ workers' = [workers EXCEPT ![ThisThread].selector_flags = r.map]

NoCall ==
    [op |-> "none", element |-> 0, sharing |-> "", result |-> CannotShare,
     tested |-> <<>>, before |-> <<>>, returned |-> <<>>, relations |-> {}]

Init ==
    /\ dom = DocDom
    /\ data = DocData
    /\ cache = <<>>
    /\ info = None
    /\ queue \in DocOrders
    /\ ctx \in {Context(g, FALSE) : g \in BOOLEAN}
    /\ pc = "begin"
    /\ current = None
    /\ touches = 0
    /\ last = NoCall
    /\ log = <<>>
    /\ unit = {}
    /\ workers = IdleWorkers

\* ---------------------------------------------------------------- the steps

\* The worker styles the elements in the order of its queue; an element
\* comes after its parent.
Ready(e) ==
    /\ queue # <<>>
    /\ e = Head(queue)
    /\ IsSome(parent_element(e)) => has_styles(data[Unwrap(parent_element(e))])

\* What the traversal does with the result r of the lookup of e.
Looked(e, r) ==
    LET hit == r.result.kind = "StyleWasShared"
    IN /\ data' = [data EXCEPT ![e] = r.data]
       /\ cache' = IF hit THEN touch(r.cache, r.result.index) ELSE r.cache
       /\ info' = IF hit THEN None ELSE r.info
       /\ queue' = IF hit THEN Tail(queue) ELSE queue
       /\ pc' = IF hit THEN "begin" ELSE "missed"
       /\ current' = IF hit THEN None ELSE Some(e)
       /\ last' = [op |-> "share_style_if_possible", element |-> e,
                   sharing |-> "", result |-> r.result, tested |-> r.tested,
                   before |-> cache, returned |-> r.cache,
                   relations |-> {}]
       /\ log' = IF hit \/ r.cache = <<>> THEN <<>> ELSE log
       /\ FlagsSet(e, r.calls)

\* The lookup of an element: share_style_if_possible, and on a hit the
\* touch of the entry that matched.
ShareStyle(e) ==
    /\ pc = "begin"
    /\ Ready(e)
    /\ Looked(e, share_style_if_possible(e, cache, None, data[e]))
    /\ UNCHANGED <<ctx, touches, unit>>

\* What match_and_cascade of e leaves (r).
Cascaded(e, sharing, r) ==
    /\ data' = [data EXCEPT ![e] = r.data]
    /\ cache' = r.cache
    /\ last' = [op |-> "match_and_cascade", element |-> e,
                sharing |-> sharing, result |-> [kind |-> r.child],
                tested |-> <<>>, before |-> cache, returned |-> r.cache,
                relations |-> r.relations]
    /\ log' = IF r.cache # cache THEN Append(log, e) ELSE log
    /\ unit' = unit
    /\ FlagsSet(e, r.calls)

\* The traversal styles an element, after a lookup that missed or without
\* one: match_and_cascade, and the end of the element, where the
\* CurrentElementInfo of the thread is dropped whatever match_and_cascade
\* left of it.
MatchAndCascade(e, sharing) ==
    /\ IF pc = "begin" THEN Ready(e) ELSE current = Some(e)
    /\ Cascaded(e, sharing, match_and_cascade(e, data[e], sharing, cache, info))
    /\ info' = None
    /\ queue' = Tail(queue)
    /\ pc' = "begin"
    /\ current' = None
    /\ UNCHANGED <<ctx, touches>>

Touch(index) ==
    /\ pc = "begin"
    /\ touches < MaxTouch
    /\ index < num_entries(cache)
    /\ cache' = touch(cache, index)
    /\ touches' = touches + 1
    /\ last' = [op |-> "touch", element |-> index, sharing |-> "",
                result |-> CannotShare, tested |-> <<>>, before |-> cache,
                returned |-> touch(cache, index), relations |-> {}]
    /\ log' = <<>>
    /\ UNCHANGED <<dom, data, info, queue, ctx, pc, current, unit, workers>>

\* A call of clear between the styling of two elements.
Clear ==
    /\ pc = "begin"
    /\ cache' = clear(cache)
    /\ last' = [op |-> "clear", element |-> 0, sharing |-> "",
                result |-> CannotShare, tested |-> <<>>, before |-> cache,
                returned |-> clear(cache), relations |-> {}]
    /\ log' = <<>>
    /\ UNCHANGED <<dom, data, info, queue, ctx, pc, current, touches, unit,
                   workers>>

Next ==
    \/ \E e \in Elements : ShareStyle(e)
    \/ \E e \in Elements, sharing \in {"Allow", "Disallow"} : MatchAndCascade(e, sharing)
    \/ \E index \in 0..(STYLE_SHARING_CANDIDATE_CACHE_SIZE - 1) : Touch(index)
    \/ Clear

Spec == Init /\ [][Next]_vars

\* --------------------------------------- the candidate test on its own

\* The attributes element_matches_candidate compares.
MatchElements ==
    {[El(p) EXCEPT !.nac = n, !.local_name = ln, !.namespace = ns, !.link = l,
                   !.uaar = u, !.state = st, !.id = i, !.style = sa,
                   !.classes = cl, !.hints = h, !.revalidation = rv,
                   !.selector_flag_calls.revalidation =
                       IF rv = {} THEN <<>>
                       ELSE <<<<5, {HAS_EMPTY_SELECTOR, HAS_SLOW_SELECTOR}>>>>] :
        p \in {None, Some(2), Some(3), Some(6)}, n \in BOOLEAN,
        ln \in {"span", "div"}, ns \in {"html", "svg"}, l \in BOOLEAN,
        u \in BOOLEAN, st \in {0, 1}, i \in {None, Some("a"), Some("b")},
        sa \in BOOLEAN, cl \in {<<>>, <<"x">>, <<"x", "y">>, <<"y", "x">>},
        h \in BOOLEAN, rv \in {{}, {1}}}

\* What the cache can hold: insert_if_possible admits no native-anonymous
\* element, and none with a style attribute or presentational hints.
MatchCandidates ==
    {[El(Some(2)) EXCEPT !.id = i, !.classes = cl] :
        i \in {None, Some("a")}, cl \in {<<>>, <<"x", "y">>}}

Dims ==
    {"parent", "nac", "local_name", "namespace", "link", "uaar", "state", "id",
     "style", "classes", "hints", "revalidation"}

\* Elements 2 and 3 hold the same value set (3 shared the style of 2);
\* element 6 holds its own.
MatchDom(candidate, element) ==
    1 :> [El(None) EXCEPT !.local_name = "html"]
    @@ 2 :> [El(Some(1)) EXCEPT !.local_name = "div"]
    @@ 3 :> [El(Some(1)) EXCEPT !.local_name = "div"]
    @@ 4 :> candidate
    @@ 5 :> element
    @@ 6 :> [El(Some(1)) EXCEPT !.local_name = "div"]

MatchData ==
    [e \in 1..6 |->
        CASE e = 3 -> Styled("plain", <<2, "primary">>, "black")
          [] e = 5 -> Unstyled
          [] OTHER -> Styled("plain", <<e, "primary">>, "black")]

InitMatch ==
    /\ \E candidate \in MatchCandidates, element \in MatchElements :
          /\ Cardinality({f \in Dims : element[f] # candidate[f]}) <= MaxDiff
          /\ dom = MatchDom(candidate, element)
          /\ \E classes \in {None, Some(candidate.classes)},
                reval \in {None, Some(candidate.revalidation)} :
                cache = <<Candidate(4, classes, reval)>>
          /\ info \in {None, Some(element.revalidation)}
    /\ data = MatchData
    /\ queue = <<5>>
    /\ ctx = Context(FALSE, FALSE)
    /\ pc = "begin"
    /\ current = None
    /\ touches = 0
    /\ last = NoCall
    /\ log = <<>>
    /\ unit = {}
    /\ workers = IdleWorkers

\* What one test leaves (r).
Tested(r) ==
    /\ cache' = <<r.candidate>>
    /\ info' = r.info
    /\ last' = [op |-> "element_matches_candidate", element |-> Head(queue),
                sharing |-> "",
                result |-> [kind |-> IF r.ok THEN "Ok" ELSE r.miss,
                            style |-> r.style],
                tested |-> <<>>, before |-> cache, returned |-> <<r.candidate>>,
                relations |-> {}]
    /\ FlagsSet(Head(queue), r.calls)

\* One test of the element against the candidate the cache holds, as
\* share_style_if_possible makes it: for an element it tests candidates
\* for.
ElementMatchesCandidate ==
    /\ last.op = "none"
    /\ tests_candidates(Head(queue))
    /\ Tested(share_style_with_candidate_if_possible(Head(queue), cache[1], info))
    /\ UNCHANGED <<data, queue, ctx, pc, current, touches, log, unit>>

\* The same pair through the lookup.
LookupOnce ==
    /\ last.op = "none"
    /\ info = None
    /\ ShareStyle(Head(queue))

NextMatch == ElementMatchesCandidate \/ LookupOnce

SpecMatch == InitMatch /\ [][NextMatch]_vars

\* ------------------------------------------------- filling the cache

\* A root and NumSiblings children; every third child has a class.
WideDom ==
    [e \in 1..(NumSiblings + 1) |->
        IF e = 1 THEN [El(None) EXCEPT !.local_name = "html"]
        ELSE IF e % 3 = 0 THEN [El(Some(1)) EXCEPT !.classes = <<"x">>]
        ELSE El(Some(1))]

\* Elements 4 and 5 were styled by an earlier pass and are restyled; the
\* others are styled for the first time.
WideData ==
    [e \in DOMAIN WideDom |->
        IF e = 4 THEN Restyling("plain", <<e, "old">>, "black")
        ELSE IF e = 5 THEN Restyling("plain", <<e, "old">>, "red")
        ELSE Unstyled]

InitLRU ==
    /\ dom = WideDom
    /\ data = WideData
    /\ cache = <<>>
    /\ info = None
    /\ queue = [i \in 1..(NumSiblings + 1) |-> i]
    /\ ctx = Context(FALSE, FALSE)
    /\ pc = "begin"
    /\ current = None
    /\ touches = 0
    /\ last = NoCall
    /\ log = <<>>
    /\ unit = {}
    /\ workers = IdleWorkers

\* The traversal with style sharing allowed for every element.
NextLRU ==
    \/ \E e \in Elements : ShareStyle(e)
    \/ \E e \in Elements : MatchAndCascade(e, "Allow")
    \/ \E index \in 0..(STYLE_SHARING_CANDIDATE_CACHE_SIZE - 1) : Touch(index)
    \/ Clear

SpecLRU == InitLRU /\ [][NextLRU]_vars

\* ------------------------------------- what the cache admits and rejects

InsertDom ==
    1 :> [El(None) EXCEPT !.local_name = "html"]
    @@ 2 :> El(Some(1))
    @@ 3 :> [El(Some(1)) EXCEPT !.nac = TRUE]
    @@ 4 :> [El(Some(1)) EXCEPT !.id = Some("a"),
                                !.relations = {AFFECTED_BY_ID_SELECTOR}]
    @@ 5 :> [El(Some(1)) EXCEPT !.classes = <<"p">>,
                                !.pseudo_rules = [p \in EagerPseudos |->
                                    IF p = "before" THEN Some("content") ELSE None]]
    @@ 6 :> [El(Some(1)) EXCEPT !.style = TRUE]
    @@ 7 :> [El(Some(1)) EXCEPT !.hints = TRUE]
    @@ 8 :> [El(Some(1)) EXCEPT !.classes = <<"t">>, !.matched = "transitions"]
    @@ 9 :> [El(Some(1)) EXCEPT !.classes = <<"a">>, !.matched = "animations"]
    @@ 10 :> [El(Some(1)) EXCEPT
                 !.relations = {AFFECTED_BY_STATE}, !.state = 1,
                 !.selector_flag_calls.primary = <<<<10, {HAS_EMPTY_SELECTOR}>>>>]
    @@ 11 :> [El(Some(1)) EXCEPT !.id = Some("b")]
    @@ 12 :> [El(Some(1)) EXCEPT !.classes = <<"h">>, !.matched = "hidden"]
    @@ 13 :> El(Some(1))

InsertOrders ==
    {<<1, 2, 3, 4, 5, 6, 7, 8, 9, 10, 11, 12, 13>>,
     <<1, 12, 11, 10, 9, 8, 7, 6, 5, 4, 3, 2, 13>>}

InitInsert ==
    /\ dom = InsertDom
    /\ data = [e \in DOMAIN InsertDom |->
                  IF e \in {5, 9} THEN Restyling("plain", <<e, "old">>, "black")
                  ELSE Unstyled]
    /\ cache = <<>>
    /\ info = None
    /\ queue \in InsertOrders
    /\ ctx \in {Context(g, d) : g \in BOOLEAN, d \in BOOLEAN}
    /\ pc = "begin"
    /\ current = None
    /\ touches = 0
    /\ last = NoCall
    /\ log = <<>>
    /\ unit = {}
    /\ workers = IdleWorkers

SpecInsert == InitInsert /\ [][Next]_vars

\* ------------------------------------------------- the damage on its own

\* A value set: what the damage computation reads of it.
ValuesOf(ptr, display, color, ineffective_content) ==
    [ptr |-> ptr, display |-> display, transitions |-> FALSE,
     animations |-> FALSE, ineffective_content |-> ineffective_content,
     color |-> color]

\* The old and new values accumulate_damage is called with.
DamageValues ==
    {ValuesOf(<<2, "v1">>, "block", "black", TRUE),
     ValuesOf(<<2, "v2">>, "block", "red", TRUE),
     ValuesOf(<<2, "v3">>, "none", "black", TRUE),
     ValuesOf(<<2, "v4">>, "inline", "black", FALSE)}

\* The values compute_style_difference is called with.
DifferenceValues ==
    DamageValues \cup {ValuesOf(<<2, "v5">>, "none", "red", FALSE)}

\* No pseudo-element, ::before, and a pseudo-element that is neither
\* ::before nor ::after.
DamagePseudos == {None, Some("before"), Some("selection")}

\* The restyle records an element can carry when a step begins.
DamageRestyles ==
    {None} \cup {Some([damage |-> d, damage_handled |-> h]) :
                    d \in {{}, {"reconstruct"}}, h \in {{}, {"reconstruct"}}}

\* The Servo build, the Gecko build, and Gecko in a traversal for
\* reconstruction.
DamageContexts ==
    {Context(FALSE, FALSE), Context(TRUE, FALSE),
     [Context(TRUE, FALSE) EXCEPT !.for_reconstruct = TRUE]}

\* A root and one element, with or without a frame of its own and of its
\* ::before; a rule matches its ::before.
DamageDom(frame, pseudo_frames) ==
    1 :> [El(None) EXCEPT !.local_name = "html"]
    @@ 2 :> [El(Some(1)) EXCEPT
                !.frame = frame, !.pseudo_frames = pseudo_frames,
                !.selector_flag_calls.pseudos = <<<<2, {HAS_SLOW_SELECTOR}>>>>,
                !.pseudo_rules = [p \in EagerPseudos |->
                                     IF p = "before" THEN Some("content") ELSE None]]

InitDamage ==
    /\ \E frame \in BOOLEAN, pseudo_frames \in {{}, {"before"}} :
          dom = DamageDom(frame, pseudo_frames)
    /\ \E restyle \in DamageRestyles :
          data = 1 :> Styled("plain", <<1, "primary">>, "black")
                 @@ 2 :> [Styled("plain", <<2, "old">>, "black")
                             EXCEPT !.restyle = restyle]
    /\ ctx \in DamageContexts
    /\ cache = <<>>
    /\ info = None
    /\ queue = <<>>
    /\ pc = "begin"
    /\ current = None
    /\ touches = 0
    /\ last = NoCall
    /\ log = <<>>
    /\ unit = {}
    /\ workers = IdleWorkers

\* What accumulate_damage leaves (r).
Accumulated(old_values, new_values, pseudo, r) ==
    /\ data' = [data EXCEPT ![2].restyle = r.restyle]
    /\ last' = [op |-> "accumulate_damage", element |-> 2,
                restyle |-> data[2].restyle, old_values |-> old_values,
                new_values |-> new_values, pseudo |-> pseudo,
                result |-> r.child, returned |-> r.restyle]

\* One call of accumulate_damage on the restyle record of the element.
AccumulateDamage(old_values, new_values, pseudo) ==
    /\ Accumulated(old_values, new_values, pseudo,
                   accumulate_damage(2, data[2].restyle, old_values,
                                     new_values, pseudo))
    /\ UNCHANGED <<dom, cache, info, queue, ctx, pc, current, touches, log,
                   unit, workers>>

\* One call of compute_style_difference, which changes nothing.
ComputeStyleDifference(old_values, new_values, pseudo) ==
    /\ last.op = "none"
    /\ last' = [op |-> "compute_style_difference", element |-> 2,
                old_values |-> old_values, new_values |-> new_values,
                pseudo |-> pseudo,
                result |-> compute_style_difference(2, old_values,
                                                    new_values, pseudo)]
    /\ UNCHANGED <<dom, data, cache, info, queue, ctx, pc, current, touches, log,
                   unit, workers>>

\* What match_pseudos leaves (r).
PseudosMatched(r) ==
    /\ data' = [data EXCEPT ![2] = r.data]
    /\ last' = [op |-> "match_pseudos", element |-> 2,
                restyle |-> data[2].restyle, result |-> r.rule_nodes_changed,
                returned |-> r.data.restyle]
    /\ FlagsSet(2, r.calls)

\* One call of match_pseudos on the element.
MatchPseudos ==
    /\ PseudosMatched(match_pseudos(2, data[2]))
    /\ UNCHANGED <<cache, info, queue, ctx, pc, current, touches, log, unit>>

NextDamage ==
    \/ \E old_values \in {None} \cup {Some(v) : v \in DamageValues},
          new_values \in DamageValues, pseudo \in {None, Some("before")} :
          AccumulateDamage(old_values, new_values, pseudo)
    \/ \E old_values \in DifferenceValues, new_values \in DifferenceValues,
          pseudo \in DamagePseudos :
          ComputeStyleDifference(old_values, new_values, pseudo)
    \/ MatchPseudos

SpecDamage == InitDamage /\ [][NextDamage]_vars

\* ------------------------------------------- the styling of an element

\* A root with a new ::before; a div with a new style attribute and eager
\* pseudo-elements; the element that backs its ::before (in the Gecko
\* build); two plain spans, the first without a
\* frame, the second matched or not by a revalidation selector; and an element with a style attribute, a SMIL override and an
\* animation, whose rule is in the rule tree in the Gecko build only and
\* which the hook acts on.
CascadeDom(gecko, after_rules, animation_rules, hook) ==
    1 :> [El(None) EXCEPT
             !.local_name = "html",
             !.pseudo_rules = [before |-> Some("content"), after |-> None]]
    @@ 2 :> [El(Some(1)) EXCEPT
                !.local_name = "div", !.style = TRUE,
                !.selector_flag_calls.pseudos = <<<<2, {HAS_EMPTY_SELECTOR}>>>>,
                !.pseudo_rules = [before |-> Some(IF hook = "running" THEN "quoted"
                                                  ELSE "content"),
                                  after |-> after_rules]]
    @@ 3 :> [El(Some(2)) EXCEPT
                !.implemented_pseudo = IF gecko THEN Some("before") ELSE None,
                !.animation_rules = IF gecko THEN animation_rules ELSE <<None, None>>,
                !.has_animations = gecko /\ animation_rules # <<None, None>>]
    @@ 4 :> [El(Some(1)) EXCEPT
                !.frame = FALSE,
                !.selector_flag_calls.primary =
                    <<<<4, {HAS_SLOW_SELECTOR}>>, <<5, {HAS_EMPTY_SELECTOR}>>>>]
    @@ 5 :> El(Some(1))
    @@ 6 :> [El(Some(1)) EXCEPT
                !.local_name = "p", !.style = TRUE, !.smil_override = Some("smil"),
                !.animation_rules =
                    IF gecko
                    THEN <<Some("animation"),
                           IF hook = "transition" THEN Some("transition") ELSE None>>
                    ELSE <<None, None>>,
                !.has_animations = TRUE,
                !.has_css_transitions = gecko /\ hook = "transition",
                !.might_need_transitions_update = gecko /\ hook = "transition",
                !.needs_transitions_update = gecko /\ hook = "transition",
                !.starts_transition = hook = "transition",
                !.running_animation = hook = "running"]

\* The style an earlier pass left for a pseudo-element of an element whose
\* primary values were black.
OldPseudoStyle(e, pseudo) ==
    [rules |-> RuleNode("content"),
     values |-> Some(cascade(RuleNode("content"), Some([color |-> "black"]),
                             <<e, pseudo, "old">>))]

\* The ElementData an earlier pass left, every element with a restyle
\* pending. The second span had an ::after, and the element whose change
\* of colour starts a transition was red, by an important rule.
CascadeData(gecko, hook) ==
    1 :> Restyling("plain", <<1, "old">>, "black")
    @@ 2 :> [Restyling("plain", <<2, "old">>, "black") EXCEPT
                !.styles = Some([Unwrap(@) EXCEPT
                               !.pseudos = [before |-> Some(OldPseudoStyle(2, "before")),
                                            after |-> Some(OldPseudoStyle(2, "after"))]])]
    @@ 3 :> (IF gecko
             THEN [Restyling("content", <<2, "before", "old">>, "black") EXCEPT
                      !.styles = Some([Unwrap(@) EXCEPT
                                     !.primary = OldPseudoStyle(2, "before")])]
             ELSE Restyling("plain", <<3, "old">>, "black"))
    @@ 4 :> Restyling("plain", <<4, "old">>, "black")
    @@ 5 :> [Restyling("plain", <<5, "old">>, "black") EXCEPT
                !.styles = Some([Unwrap(@) EXCEPT
                               !.pseudos = [before |-> None,
                                            after |-> Some(OldPseudoStyle(5, "after"))]])]
    @@ 6 :> [Restyling("plain", <<6, "old">>,
                       IF gecko THEN "animated"
                       ELSE IF hook = "transition" THEN "red" ELSE "black")
                EXCEPT
                !.styles = Some([Unwrap(@) EXCEPT
                               !.primary.rules =
                                   [RuleNode(IF hook = "transition" THEN "red"
                                             ELSE "plain") EXCEPT
                                       !.animations = IF gecko THEN Some("old animation")
                                                      ELSE None,
                                       !.style_attribute_normal = Some("style")]])]

CascadeContexts ==
    {Context(FALSE, FALSE), Context(TRUE, FALSE),
     [Context(TRUE, FALSE) EXCEPT !.for_reconstruct = TRUE],
     [Context(TRUE, FALSE) EXCEPT !.for_animation_only = TRUE]}

InitCascade ==
    /\ ctx \in CascadeContexts
    /\ \E after_rules \in {None, Some("content")},
          animation_rules \in {<<None, None>>, <<Some("animation"), Some("transition")>>},
          hook \in {"none", "transition", "running"},
          revalidation \in {{}, {1}},
          restyle \in BOOLEAN :
          /\ dom = [CascadeDom(ctx.gecko, after_rules, animation_rules, hook)
                       EXCEPT ![5].revalidation = revalidation]
          /\ data = IF restyle \/ ctx.for_animation_only
                    THEN CascadeData(ctx.gecko, hook)
                    ELSE [e \in 1..6 |-> Unstyled]
    /\ cache = <<>>
    /\ info = None
    /\ queue = <<1, 2, 3, 4, 5, 6>>
    /\ pc = "begin"
    /\ current = None
    /\ touches = 0
    /\ last = NoCall
    /\ log = <<>>
    /\ unit = {}
    /\ workers = IdleWorkers

\* The worker starts with e, the next element of its queue, or goes on
\* with e at the step at.
Starts(e) == pc = "begin" /\ Ready(e)
GoesOn(e, at) == pc \in at /\ current = Some(e)

\* What match_primary of e leaves (r).
PrimaryMatched(e, r) ==
    /\ data' = [data EXCEPT ![e] = r.data]
    /\ last' = [op |-> "match_primary", element |-> e, before |-> data[e],
                result |-> r.rule_nodes_changed, relations |-> r.relations,
                important_rules_changed |->
                    r.important_rules_overriding_animation_changed]
    /\ FlagsSet(e, r.calls)

\* match_and_cascade, first step: match_primary.
MatchPrimary(e) ==
    /\ ~ctx.for_animation_only
    /\ Starts(e) \/ GoesOn(e, {"missed"})
    /\ PrimaryMatched(e, match_primary(e, data[e]))
    /\ pc' = "mc_cascade_primary"
    /\ current' = Some(e)
    /\ UNCHANGED <<cache, info, queue, ctx, touches, log, unit>>

\* What replace_rules of e leaves (r).
RulesReplaced(e, replacements, r) ==
    /\ data' = [data EXCEPT ![e] = r.data]
    /\ last' = [op |-> "replace_rules", element |-> e, before |-> data[e],
                replacements |-> replacements, result |-> r.result]

\* The restyle of an element with a replacement hint: replace_rules, then
\* cascade_primary_and_pseudos.
ReplaceRules(e, replacements) ==
    /\ Starts(e)
    /\ has_styles(data[e]) /\ has_restyle(data[e])
    /\ (replacements \cap for_animations # {}) = ctx.for_animation_only
    /\ RulesReplaced(e, replacements, replace_rules(e, replacements, data[e]))
    /\ pc' = "cp_cascade_primary"
    /\ current' = Some(e)
    /\ UNCHANGED <<dom, cache, info, queue, ctx, touches, log, unit, workers>>

\* What cascade_primary of e leaves (r); read is what it read of the
\* running animations and cascaded what cascade_internal returned in it.
PrimaryCascaded(e, r, read, cascaded) ==
    /\ data' = [data EXCEPT ![e] = r.data]
    /\ pc' = IF pc \in {"mc_cascade_primary", "mc_update_animations"}
             THEN (IF is_display_none(styles(r.data)) THEN "mc_insert"
                   ELSE "mc_match_pseudos")
             ELSE "cp_cascade_pseudos_1"
    /\ last' = [op |-> "cascade_primary", element |-> e, before |-> data[e],
                read |-> read, cascaded |-> cascaded, result |-> r.child]

\* cascade_primary, in match_and_cascade and in cascade_primary_and_pseudos:
\* the whole of it, or, when update_animations_for_cascade found an entry
\* of the element under the read lock, the call up to the release of that
\* lock.
CascadePrimary(e) ==
    /\ \/ GoesOn(e, {"mc_cascade_primary", "cp_cascade_primary"})
       \/ Starts(e) /\ has_styles(data[e]) /\ has_restyle(data[e])
                    /\ ~ctx.for_animation_only
    /\ IF takes_write_lock(e, data[e])
       THEN /\ pc' = IF pc = "mc_cascade_primary" THEN "mc_update_animations"
                     ELSE "cp_update_animations"
            /\ UNCHANGED <<data, last>>
       ELSE PrimaryCascaded(e, cascade_primary(e, data[e], FALSE),
                running_animations_read(e),
                cascade_internal(e, [styles(data[e]).primary EXCEPT !.values = None],
                                 None, <<e, "primary">>))
    /\ current' = Some(e)
    /\ UNCHANGED <<dom, cache, info, queue, ctx, touches, log, unit, workers>>

\* What a panic of the worker in cascade_primary of e leaves: the thread
\* is gone.
Panicked(e) ==
    /\ data' = [data EXCEPT ![e] = cascade_primary_panicked(data[e])]
    /\ pc' = "panicked"
    /\ last' = [op |-> "panic", element |-> e, before |-> data[e]]

\* cascade_primary from the write lock of update_animations_for_cascade
\* on: the entry found under the read lock is unwrapped, which panics when
\* another thread has removed it.
UpdateAnimationsForCascade(e) ==
    /\ GoesOn(e, {"mc_update_animations", "cp_update_animations"})
    /\ LET read == RunningAnimationsRead(TRUE, running_animations_get(e))
       IN IF update_animations_panics(read)
          THEN Panicked(e)
          ELSE PrimaryCascaded(e, cascade_primary_read(e, data[e], read, FALSE),
                   read,
                   cascade_internal(e, [styles(data[e]).primary EXCEPT !.values = None],
                                    None, <<e, "primary">>))
    /\ UNCHANGED <<dom, cache, info, queue, ctx, current, touches, log, unit,
                   workers>>

\* Another thread takes the write lock of the running animations of the
\* Servo build and removes the entry of an element.
RemoveRunningAnimations(e) ==
    /\ ~ctx.gecko
    /\ IsSome(running_animations_get(e))
    /\ dom' = [dom EXCEPT ![e].running_animation = FALSE]
    /\ UNCHANGED <<data, cache, info, queue, ctx, pc, current, touches, last,
                   log, unit, workers>>

\* What match_pseudos of e leaves (r).
EagerPseudosMatched(e, r) ==
    /\ data' = [data EXCEPT ![e] = r.data]
    /\ last' = [op |-> "match_pseudos", element |-> e, before |-> data[e],
                result |-> r.rule_nodes_changed]
    /\ FlagsSet(e, r.calls)

\* match_and_cascade, third step: match_pseudos.
MatchEagerPseudos(e) ==
    /\ GoesOn(e, {"mc_match_pseudos"})
    /\ EagerPseudosMatched(e, match_pseudos(e, data[e]))
    /\ pc' = "mc_cascade_pseudos_1"
    /\ UNCHANGED <<cache, info, queue, ctx, current, touches, log, unit>>

\* One turn of the loop of cascade_pseudos, for the i-th eager pseudo: it
\* is cascaded when the element has a style for it. cascade_primary_and_pseudos
\* returns after the last one.
CascadeEagerPseudo(e, i) ==
    LET pseudo == EagerPseudoOrder[i]
        mc == pc = "mc_cascade_pseudos_1" \/ pc = "mc_cascade_pseudos_2"
        returns == ~mc /\ i = Len(EagerPseudoOrder)
    IN /\ GoesOn(e, IF i = 1 THEN {"mc_cascade_pseudos_1", "cp_cascade_pseudos_1"}
                    ELSE {"mc_cascade_pseudos_2", "cp_cascade_pseudos_2"})
       /\ IF IsSome(styles(data[e]).pseudos[pseudo])
          THEN /\ data' = [data EXCEPT ![e] = cascade_eager_pseudo(e, data[e], pseudo)]
               /\ last' = [op |-> "cascade_eager_pseudo", element |-> e,
                           before |-> data[e], pseudo |-> pseudo,
                           cascaded |->
                               cascade_internal(e, styles(data[e]).primary,
                                   Some([Unwrap(styles(data[e]).pseudos[pseudo])
                                            EXCEPT !.values = None]),
                                   <<e, pseudo>>),
                           returns |-> returns]
          ELSE /\ data' = data
               /\ last' = [op |-> "cascade_pseudos", element |-> e,
                           before |-> data[e], pseudo |-> pseudo,
                           returns |-> returns]
       /\ pc' = IF i = 1
                THEN (IF mc THEN "mc_cascade_pseudos_2" ELSE "cp_cascade_pseudos_2")
                ELSE (IF mc THEN "mc_insert" ELSE "begin")
       /\ queue' = IF returns THEN Tail(queue) ELSE queue
       /\ current' = IF returns THEN None ELSE current
       /\ UNCHANGED <<dom, cache, info, ctx, touches, log, unit, workers>>

\* What the end of match_and_cascade leaves (r).
Offered(e, sharing, r) ==
    /\ cache' = r.cache
    /\ last' = [op |-> "match_and_cascade", element |-> e, sharing |-> sharing,
                before |-> cache, returned |-> r.cache, relations |-> r.relations]
    /\ log' = IF r.cache # cache THEN Append(log, e) ELSE log
    /\ unit' = unit

\* match_and_cascade, last step: the relations of the pseudos, the offer
\* to the cache, which takes the revalidation results of the element when
\* sharing is allowed, the return.
Offer(e, sharing) ==
    LET r == pseudos_cascaded(e, data[e], sharing, cache, info,
                              IF is_eager_pseudo(e) THEN {} ELSE matched_relations(e),
                              MustCascade)
    IN /\ GoesOn(e, {"mc_insert"})
       /\ Offered(e, sharing, r)
       /\ info' = r.info
       /\ pc' = "mc_returned"
       /\ UNCHANGED <<dom, data, queue, ctx, current, touches, workers>>

\* The traversal is done with the element match_and_cascade returned for:
\* the CurrentElementInfo of the thread is dropped, and the next element
\* of the queue is the worker's.
EndElement(e) ==
    /\ GoesOn(e, {"mc_returned"})
    /\ info' = None
    /\ queue' = Tail(queue)
    /\ pc' = "begin"
    /\ current' = None
    /\ UNCHANGED <<dom, data, cache, ctx, touches, last, log, unit, workers>>

NextCascade ==
    \/ \E e \in Elements : ~ctx.for_animation_only /\ ShareStyle(e)
    \/ \E e \in Elements : MatchPrimary(e)
    \/ \E e \in Elements,
          replacements \in {{RESTYLE_STYLE_ATTRIBUTE}, {RESTYLE_SMIL},
                            {RESTYLE_CSS_TRANSITIONS},
                            {RESTYLE_CSS_ANIMATIONS, RESTYLE_STYLE_ATTRIBUTE},
                            {RESTYLE_SMIL, RESTYLE_CSS_ANIMATIONS}, {}} :
          ReplaceRules(e, replacements)
    \/ \E e \in Elements : CascadePrimary(e)
    \/ \E e \in Elements : MatchEagerPseudos(e)
    \/ \E e \in Elements, i \in 1..2 : CascadeEagerPseudo(e, i)
    \/ \E e \in Elements, sharing \in {"Allow", "Disallow"} : Offer(e, sharing)
    \/ \E e \in Elements : EndElement(e)
    \/ \E e \in Elements : UpdateAnimationsForCascade(e)
    \/ \E e \in Elements : RemoveRunningAnimations(e)

SpecCascade == InitCascade /\ [][NextCascade]_vars

\* ------------------------------------------------- the base style

\* The animation code asks for the base style of a styled element, or of
\* an eager pseudo-element it holds a style for, between the styling of two
\* elements.
GetBaseStyle(e, pseudo) ==
    /\ pc = "begin"
    /\ has_styles(data[e])
    /\ IsSome(pseudo) => IsSome(styles(data[e]).pseudos[Unwrap(pseudo)])
    /\ last' = [op |-> "get_base_style", element |-> e, pseudo |-> pseudo,
                before |-> data[e],
                result |-> get_base_style(e, styles(data[e]).primary,
                              IF IsSome(pseudo)
                              THEN styles(data[e]).pseudos[Unwrap(pseudo)]
                              ELSE None,
                              <<e, "base">>)]
    /\ UNCHANGED <<dom, data, cache, info, queue, ctx, pc, current, touches,
                   log, unit, workers>>

\* The elements were all styled by an earlier pass.
InitBase == InitCascade /\ \A e \in DOMAIN data : has_styles(data[e])

\* Restyles with replacement hints, and requests for base styles between
\* them.
NextBase ==
    \/ \E e \in Elements,
          replacements \in {{RESTYLE_STYLE_ATTRIBUTE}, {RESTYLE_CSS_TRANSITIONS},
                            {RESTYLE_SMIL, RESTYLE_CSS_ANIMATIONS}, {}} :
          ReplaceRules(e, replacements)
    \/ \E e \in Elements : CascadePrimary(e)
    \/ \E e \in Elements : UpdateAnimationsForCascade(e)
    \/ \E e \in Elements : RemoveRunningAnimations(e)
    \/ \E e \in Elements, i \in 1..2 : CascadeEagerPseudo(e, i)
    \/ \E e \in Elements, pseudo \in {None} \cup {Some(p) : p \in EagerPseudos} :
          GetBaseStyle(e, pseudo)

SpecBase == InitBase /\ [][NextBase]_vars

\* ------------------------------------------------- the layout parent

\* The longest chain of ancestors in the trees below.
MaxDepth == 4

\* A tree: a chain of MaxDepth + 1 elements under one another from the
\* root 1, and a second child of the root.
LayoutDom ==
    [e \in 1..(MaxDepth + 2) |->
        IF e = 1 THEN [El(None) EXCEPT !.local_name = "html"]
        ELSE IF e = MaxDepth + 2 THEN El(Some(1))
        ELSE El(Some(e - 1))]

\* Every element is styled, with display: contents or as a block.
InitLayout ==
    /\ dom = LayoutDom
    /\ \E matched \in [DOMAIN LayoutDom -> {"plain", "contents"}] :
          data = [e \in DOMAIN LayoutDom |->
                     Styled(matched[e], <<e, "primary">>, "black")]
    /\ ctx \in {Context(FALSE, FALSE), Context(TRUE, FALSE)}
    /\ cache = <<>>
    /\ info = None
    /\ queue = <<>>
    /\ pc = "begin"
    /\ current = None
    /\ touches = 0
    /\ last = [op |-> "none"]
    /\ log = <<>>
    /\ unit = None
    /\ workers = IdleWorkers

\* layout_parent is called on e: current is e.
CallLayoutParent(e) ==
    /\ pc = "begin"
    /\ pc' = "layout_parent"
    /\ current' = Some(e)
    /\ last' = [op |-> "layout_parent", element |-> e, turns |-> 0,
                returned |-> None]
    /\ UNCHANGED <<dom, data, cache, info, queue, ctx, touches, log, unit, workers>>

\* What a turn of the loop of layout_parent leaves (turn).
LayoutParentTurned(turn) ==
    /\ pc' = IF turn.returns THEN "begin" ELSE "layout_parent"
    /\ current' = IF turn.returns THEN None ELSE Some(turn.current)
    /\ last' = [last EXCEPT !.turns = @ + 1,
                            !.returned = IF turn.returns THEN Some(turn.current)
                                         ELSE None]

\* One turn of the loop of layout_parent.
LayoutParentTurn ==
    /\ pc = "layout_parent"
    /\ LayoutParentTurned(layout_parent_turn(Unwrap(current)))
    /\ UNCHANGED <<dom, data, cache, info, queue, ctx, touches, log, unit, workers>>

\* cascade_with_rules of e with its primary rule node.
CascadeWithRules(e, inherit_mode) ==
    /\ pc = "begin"
    /\ last' = [op |-> "cascade_with_rules", element |-> e,
                inherit_mode |-> inherit_mode,
                sources |-> inheritance_sources(e, styles(data[e]).primary,
                                                inherit_mode),
                result |-> cascade_with_rules(e, styles(data[e]).primary.rules,
                                              styles(data[e]).primary,
                                              inherit_mode, <<e, "cascaded">>)]
    /\ UNCHANGED <<dom, data, cache, info, queue, ctx, pc, current, touches, log,
                   unit, workers>>

NextLayout ==
    \/ \E e \in Elements : CallLayoutParent(e)
    \/ LayoutParentTurn
    \/ \E e \in Elements, inherit_mode \in {"Normal", "FromPrimaryStyle"} :
          CascadeWithRules(e, inherit_mode)

\* The thread that entered the loop of layout_parent goes on with it.
SpecLayout == InitLayout /\ [][NextLayout]_vars /\ WF_vars(LayoutParentTurn)

\* ----------------------------- the selector flags of a parallel traversal

\* How many times selector matching hands flags to apply_selector_flags
\* in a run, all workers together.
MaxFlagCalls == 2

\* A root, its two children, and a grandchild; some flags are set already.
FlagsDom(root_flags, child_flags) ==
    1 :> [El(None) EXCEPT !.local_name = "html", !.selector_flags = root_flags]
    @@ 2 :> [El(Some(1)) EXCEPT !.selector_flags = child_flags]
    @@ 3 :> El(Some(1))
    @@ 4 :> El(Some(2))

InitFlags ==
    /\ \E root_flags \in {{}, {HAS_SLOW_SELECTOR}},
          child_flags \in {{}, {HAS_EMPTY_SELECTOR}} :
          dom = FlagsDom(root_flags, child_flags)
    /\ data = [e \in 1..4 |->
                 IF e = 1 THEN Styled("plain", <<1, "primary">>, "black")
                 ELSE Unstyled]
    /\ cache = <<>>
    /\ info = None
    /\ queue = <<>>
    /\ ctx = Context(FALSE, FALSE)
    /\ pc = "begin"
    /\ current = None
    /\ touches = 0
    /\ last = NoCall
    /\ log = <<>>
    /\ unit = {}
    /\ workers = [w \in Workers |->
                     [styling |-> None, selector_flags |-> {}, calls |-> 0]]

\* A worker takes an element nobody styles, whose parent is styled.
StartStyling(w, e) ==
    /\ IsNone(workers[w].styling)
    /\ ~has_styles(data[e])
    /\ \A v \in Workers : workers[v].styling # Some(e)
    /\ IsSome(parent_element(e)) /\ has_styles(data[Unwrap(parent_element(e))])
    /\ workers' = [workers EXCEPT ![w].styling = Some(e)]
    /\ last' = [op |-> "start", worker |-> w, self |-> e]
    /\ UNCHANGED <<dom, data, cache, info, queue, ctx, pc, current, touches, log,
                   unit>>

\* The flags a call of apply_selector_flags is asked to set, by the element
\* each is for.
Requested(element, flags) ==
    {<<element, f>> : f \in for_self(flags)}
        \cup (IF IsSome(parent_element(element))
              THEN {<<Unwrap(parent_element(element)), f>> : f \in for_parent(flags)}
              ELSE {})

\* What one call of apply_selector_flags leaves (r); unit keeps what the
\* calls were asked for.
FlagsApplied(w, self, element, flags, r) ==
    /\ unit' = unit \cup Requested(element, flags)
    /\ dom' = IF IsSome(r.set)
              THEN [dom EXCEPT ![Unwrap(r.set)].selector_flags =
                                   @ \cup for_self(flags)]
              ELSE dom
    /\ workers' = [workers EXCEPT ![w].selector_flags = r.map,
                                  ![w].calls = @ + 1]
    /\ last' = [op |-> "apply_selector_flags", worker |-> w, self |-> self,
                element |-> element, flags |-> flags,
                before |-> [e \in Elements |-> dom[e].selector_flags],
                map |-> workers[w].selector_flags]

\* Selector matching for the element a worker styles hands flags for an
\* element to apply_selector_flags.
ApplySelectorFlags(w, element, flags) ==
    /\ IsSome(workers[w].styling)
    /\ workers[1].calls + workers[2].calls < MaxFlagCalls
    /\ FlagsApplied(w, Unwrap(workers[w].styling), element, flags,
           apply_selector_flags(Unwrap(workers[w].styling),
                                workers[w].selector_flags, element, flags))
    /\ UNCHANGED <<data, cache, info, queue, ctx, pc, current, touches, log>>

\* The worker is done with its element.
FinishStyling(w) ==
    /\ IsSome(workers[w].styling)
    /\ data' = [data EXCEPT ![Unwrap(workers[w].styling)] =
                   Styled("plain", <<Unwrap(workers[w].styling), "primary">>, "black")]
    /\ workers' = [workers EXCEPT ![w].styling = None]
    /\ last' = [op |-> "finish", worker |-> w, self |-> Unwrap(workers[w].styling)]
    /\ UNCHANGED <<dom, cache, info, queue, ctx, pc, current, touches, log, unit>>

\* SelectorFlagsMap, applied in the sequential phase: the flags of the
\* entries of map are set on their elements.
apply_flags(d, map) ==
    [e \in DOMAIN d |->
        [d[e] EXCEPT !.selector_flags = @ \cup {t[2] : t \in {u \in map : u[1] = e}}]]

\* The sequential phase after the parallel traversal: no worker is styling,
\* and the deferred map of every worker is applied and emptied.
FlushSelectorFlags ==
    /\ \A w \in Workers : IsNone(workers[w].styling)
    /\ \E w \in Workers : workers[w].selector_flags # {}
    /\ dom' = apply_flags(dom, UNION {workers[w].selector_flags : w \in Workers})
    /\ workers' = [w \in Workers |-> [workers[w] EXCEPT !.selector_flags = {}]]
    /\ last' = [op |-> "flush",
                before |-> [e \in Elements |-> dom[e].selector_flags],
                maps |-> [w \in Workers |-> workers[w].selector_flags]]
    /\ UNCHANGED <<data, cache, info, queue, ctx, pc, current, touches, log, unit>>

NextFlags ==
    \/ FlushSelectorFlags
    \/ \E w \in Workers, e \in Elements : StartStyling(w, e)
    \/ \E w \in Workers, element \in Elements,
          flags \in (SUBSET {HAS_SLOW_SELECTOR, HAS_EMPTY_SELECTOR}) \ {{}} :
          ApplySelectorFlags(w, element, flags)
    \/ \E w \in Workers : FinishStyling(w)

SpecFlags == InitFlags /\ [][NextFlags]_vars

\* ------------------------------------------------- the units of work

\* The thread-local context of a worker that has not styled anything: no
\* element, an empty style sharing cache, no revalidation results, an
\* empty deferred map; missed tells that the lookup of its element missed.
ThreadLocal ==
    [styling |-> None, selector_flags |-> {}, cache |-> <<>>, info |-> None,
     missed |-> FALSE]

\* The part of the document the two workers style: the root, the two div
\* parents and the two children of the first, none of them styled.
UnitsDom == [e \in 1..5 |-> DocDom[e]]
UnitsData == [e \in 1..5 |-> Unstyled]

InitUnits ==
    /\ dom = UnitsDom
    /\ data = UnitsData
    /\ cache = <<>>
    /\ info = None
    /\ queue = <<>>
    /\ ctx = Context(FALSE, FALSE)
    /\ pc = "begin"
    /\ current = None
    /\ touches = 0
    /\ last = NoCall
    /\ log = <<>>
    /\ unit = [w \in Workers |-> {}]
    /\ workers = [w \in Workers |-> ThreadLocal]

\* A worker takes an element nobody styles, whose parent is styled; the
\* element belongs to the unit of work the worker is in.
TakeWork(w, e) ==
    /\ IsNone(workers[w].styling)
    /\ ~has_styles(data[e])
    /\ \A v \in Workers : workers[v].styling # Some(e)
    /\ IsSome(parent_element(e)) => has_styles(data[Unwrap(parent_element(e))])
    /\ workers' = [workers EXCEPT ![w].styling = Some(e), ![w].info = None,
                                  ![w].missed = FALSE]
    /\ unit' = [unit EXCEPT ![w] = @ \cup {e}]
    /\ last' = [op |-> "take_work", worker |-> w, element |-> e]
    /\ UNCHANGED <<dom, data, cache, info, queue, ctx, pc, current, touches, log>>

\* The lookup of the element a worker styles, in the worker's own cache,
\* and on a hit the touch of the entry that matched.
WorkerSharesStyle(w) ==
    LET tl == workers[w]
        e == Unwrap(tl.styling)
        r == share_style_if_possible(e, tl.cache, tl.info, data[e])
        hit == r.result.kind = "StyleWasShared"
        set == flags_set(e, dom, tl.selector_flags, r.calls)
    IN /\ IsSome(tl.styling)
       /\ ~tl.missed
       /\ data' = [data EXCEPT ![e] = r.data]
       /\ dom' = set.dom
       /\ workers' = [workers EXCEPT ![w] =
                         [styling |-> IF hit THEN None ELSE tl.styling,
                          selector_flags |-> set.map,
                          cache |-> IF hit THEN touch(r.cache, r.result.index)
                                    ELSE r.cache,
                          info |-> IF hit THEN None ELSE r.info,
                          missed |-> ~hit]]
       /\ last' = [op |-> "share_style_if_possible", worker |-> w, element |-> e,
                   result |-> r.result, tested |-> r.tested, before |-> tl.cache,
                   returned |-> r.cache, unit |-> unit[w]]
       /\ UNCHANGED <<cache, info, queue, ctx, pc, current, touches, log, unit>>

\* match_and_cascade of the element a worker styles, with the worker's own
\* cache, after a lookup that missed or without one.
WorkerMatchesAndCascades(w, sharing) ==
    LET tl == workers[w]
        e == Unwrap(tl.styling)
        r == match_and_cascade(e, data[e], sharing, tl.cache, tl.info)
        set == flags_set(e, dom, tl.selector_flags, r.calls)
    IN /\ IsSome(tl.styling)
       /\ data' = [data EXCEPT ![e] = r.data]
       /\ dom' = set.dom
       /\ workers' = [workers EXCEPT ![w] =
                         [styling |-> None, selector_flags |-> set.map,
                          cache |-> r.cache, info |-> None, missed |-> FALSE]]
       /\ last' = [op |-> "match_and_cascade", worker |-> w, element |-> e,
                   sharing |-> sharing, before |-> tl.cache,
                   returned |-> r.cache, unit |-> unit[w]]
       /\ UNCHANGED <<cache, info, queue, ctx, pc, current, touches, log, unit>>

\* An end of a unit of work that leaves the cache as it is.
end_unit_of_work_keeping(tl) == tl

\* What the end of a unit of work does to the thread-local context of the
\* worker: its style sharing cache is cleared.
end_unit_of_work(tl) == [tl EXCEPT !.cache = clear(@)]

\* A worker that styles no element ends its unit of work; what it takes
\* next may be of an unrelated subtree.
EndUnitOfWork(w) ==
    /\ IsNone(workers[w].styling)
    /\ unit[w] # {}
    /\ workers' = [workers EXCEPT ![w] = end_unit_of_work(@)]
    /\ unit' = [unit EXCEPT ![w] = {}]
    /\ last' = [op |-> "end_unit_of_work", worker |-> w,
                before |-> workers[w].cache]
    /\ UNCHANGED <<dom, data, cache, info, queue, ctx, pc, current, touches, log>>

NextUnits ==
    \/ \E w \in Workers, e \in Elements : TakeWork(w, e)
    \/ \E w \in Workers : WorkerSharesStyle(w)
    \/ \E w \in Workers, sharing \in {"Allow", "Disallow"} :
          WorkerMatchesAndCascades(w, sharing)
    \/ \E w \in Workers : EndUnitOfWork(w)

SpecUnits == InitUnits /\ [][NextUnits]_vars

\* ------------------------------------------------------------ the claims

\* The elements a cache holds, most recently used first.
CandidateElements(c) == [i \in 1..Len(c) |-> c[i].element]

IsLookup == last.op = "share_style_if_possible"
IsHit == IsLookup /\ last.result.kind = "StyleWasShared"
IsTest == last.op = "element_matches_candidate"
IsAllowedCascade == last.op = "match_and_cascade" /\ last.sharing = "Allow"

\* C1: after any sequence of insert_if_possible, touch, clear and
\* share_style_if_possible calls on one cache, num_entries() is at most 8.
C1_NumEntriesAtMostEight ==
    num_entries(cache) <= 8

\* C1 witness: a candidate was inserted into a cache that held 8 entries.
C1_Witness ==
    /\ IsAllowedCascade
    /\ num_entries(last.before) = 8
    /\ cache # last.before
    /\ num_entries(cache) = 8

\* C2: after more than 8 insertions in sequence with no touch and no clear
\* in between, the cache holds exactly the 8 candidates inserted last, the
\* latest first; an insertion into a full cache evicts the entry at the
\* least recently used end and keeps the others in order.
C2_HoldsTheEightMostRecent ==
    /\ Len(log) > 8 =>
          CandidateElements(cache) = [i \in 1..8 |-> log[Len(log) + 1 - i]]
    /\ (IsAllowedCascade /\ cache # last.before /\ num_entries(last.before) = 8) =>
          CandidateElements(cache)
              = <<last.element>> \o SubSeq(CandidateElements(last.before), 1, 7)

\* C2 witness: nine insertions in sequence, the first of which was evicted.
C2_Witness ==
    /\ Len(log) = 9
    /\ IsAllowedCascade
    /\ num_entries(cache) = 8
    /\ cache[1].element = log[9]
    /\ cache[8].element = log[2]

\* C3: when element_matches_candidate succeeds, the style returned is the
\* primary style the candidate holds: the same rule node and the very same
\* value set (same address); the element that shares it through the lookup
\* holds that style as its primary style.
C3_SharedStyleIsCandidatesPrimary ==
    /\ (IsTest /\ last.result.kind = "Ok") =>
          LET shared == Unwrap(last.result.style)
              held == styles(data[last.before[1].element]).primary
          IN /\ shared.rules = held.rules
             /\ IsSome(shared.values)
             /\ values(shared).ptr = values(held).ptr
             /\ shared = held
    /\ IsHit =>
          LET held == styles(data[last.before[last.result.index + 1].element]).primary
          IN /\ styles(data[last.element]).primary = held
             /\ values(styles(data[last.element]).primary).ptr = values(held).ptr

\* C3 witness: the test succeeded for an element whose parent is not the
\* candidate's parent but holds the same value set.
C3_Witness ==
    /\ IsTest
    /\ last.result.kind = "Ok"
    /\ parent_element(last.element) # parent_element(last.before[1].element)
    /\ values(Unwrap(last.result.style)).ptr = <<4, "primary">>

\* The positions in CacheMiss of the checks in which the element differs
\* from the candidate element.
DiffersIn(element, candidate_element) ==
    {k \in 1..12 :
        \/ k = 1 /\ dom[element].parent # dom[candidate_element].parent
                 /\ ~(/\ dom[element].parent # None
                      /\ dom[candidate_element].parent # None
                      /\ values(styles(data[dom[element].parent[1]]).primary).ptr
                           = values(styles(data[dom[candidate_element].parent[1]]).primary).ptr)
        \/ k = 2 /\ dom[element].nac
        \/ k = 3 /\ dom[element].local_name # dom[candidate_element].local_name
        \/ k = 4 /\ dom[element].namespace # dom[candidate_element].namespace
        \/ k = 5 /\ dom[element].link # dom[candidate_element].link
        \/ k = 6 /\ dom[element].uaar # dom[candidate_element].uaar
        \/ k = 7 /\ dom[element].state # dom[candidate_element].state
        \/ k = 8 /\ dom[element].id # dom[candidate_element].id
        \/ k = 9 /\ dom[element].style
        \/ k = 10 /\ dom[element].classes # dom[candidate_element].classes
        \/ k = 11 /\ dom[element].hints
        \/ k = 12 /\ dom[element].revalidation # dom[candidate_element].revalidation}

FirstOf(positions) == CHOOSE k \in positions : \A j \in positions : k <= j

\* C4: the checks of element_matches_candidate form an ordered chain: the
\* result is the miss of the first check in which the element differs from
\* the candidate, so a pair that differs in exactly one check gets that
\* check's miss, and the test succeeds when they differ in none.
C4_MissIsFirstDifference ==
    IsTest =>
        LET differs == DiffersIn(last.element, last.before[1].element)
        IN IF differs = {} THEN last.result.kind = "Ok"
           ELSE last.result.kind = CacheMiss[FirstOf(differs)]

\* C4 witness: a pair that differs in the order of its classes only, and
\* the Class miss it gets.
C4_Witness ==
    /\ IsTest
    /\ DiffersIn(last.element, last.before[1].element) = {10}
    /\ dom[last.element].classes = <<"y", "x">>
    /\ dom[last.before[1].element].classes = <<"x", "y">>
    /\ last.result.kind = "Class"

\* C5: element_matches_candidate never succeeds when the element or the
\* candidate has an id: it misses, with IdAttr unless an earlier check
\* differs. The candidate is the only side an id is met on, since the
\* element tested never has one: share_style_if_possible returns
\* CannotShare for an element with an id attribute without testing any
\* candidate, so the same id is never met on both sides.
C5_AnyIdMisses ==
    /\ (IsTest /\ (IsSome(dom[last.element].id)
                    \/ IsSome(dom[last.before[1].element].id))) =>
          /\ last.result.kind # "Ok"
          /\ (DiffersIn(last.element, last.before[1].element) \cap (1..7) = {}
                  => last.result.kind = "IdAttr")
    /\ IsTest => IsNone(dom[last.element].id)
    /\ (IsLookup /\ IsSome(dom[last.element].id)) =>
          /\ last.result = CannotShare
          /\ last.tested = <<>>
          /\ last.returned = last.before

\* C5 witness: a candidate with the id "a" and an element without an id
\* that agrees with it in every check before the id check: the IdAttr miss.
C5_Witness ==
    /\ IsTest
    /\ IsNone(dom[last.element].id)
    /\ dom[last.before[1].element].id = Some("a")
    /\ DiffersIn(last.element, last.before[1].element) \cap (1..7) = {}
    /\ last.result.kind = "IdAttr"

\* C6: when a lookup meets a Parent miss, that candidate is the last one
\* tested, the result is CannotShare and the cache has no entry when the
\* call returns.
C6_ParentMissClearsCache ==
    IsLookup =>
        \A i \in DOMAIN last.tested :
            last.tested[i] = "Parent" =>
                /\ i = Len(last.tested)
                /\ last.result = CannotShare
                /\ num_entries(last.returned) = 0
                /\ num_entries(cache) = 0

\* C6 witness: a Parent miss on the first of several candidates.
C6_Witness ==
    /\ IsLookup
    /\ last.tested = <<"Parent">>
    /\ num_entries(last.before) >= 2
    /\ num_entries(cache) = 0

\* C7: when a lookup meets a PresHints or Revalidation miss, that candidate
\* is the last one tested, the result is CannotShare, and the cache holds
\* the entries it held before the lookup, in the same order.
C7_ExpensiveMissKeepsCache ==
    IsLookup =>
        \A i \in DOMAIN last.tested :
            last.tested[i] \in {"PresHints", "Revalidation"} =>
                /\ i = Len(last.tested)
                /\ last.result = CannotShare
                /\ CandidateElements(last.returned) = CandidateElements(last.before)
                /\ CandidateElements(cache) = CandidateElements(last.before)

\* C7 witness: a Revalidation miss with candidates left untested.
C7_Witness ==
    /\ IsLookup
    /\ last.tested # <<>>
    /\ last.tested[Len(last.tested)] = "Revalidation"
    /\ Len(last.tested) < num_entries(last.before)
    /\ CandidateElements(cache) = CandidateElements(last.before)

\* The test of the element of the last lookup against the k-th entry of the
\* cache the lookup found.
TestOf(k) ==
    element_matches_candidate(last.element,
                              Candidate(last.before[k].element, None, None),
                              last.before[k].element, None)

\* The test of the k-th entry ends the scan: a match or an aborting miss.
EndsScan(k) == TestOf(k).ok \/ TestOf(k).miss \in {"Parent", "PresHints", "Revalidation"}

\* The lookup got past its early returns, to the scan of the cache.
ReachesScan(e) ==
    /\ ~ctx.disable_style_sharing_cache
    /\ dom[e].parent # None
    /\ ~dom[e].nac
    /\ ~dom[e].style
    /\ dom[e].id = None

\* C8: a lookup that reaches the scan tests the candidates from the most to
\* the least recently used one; a miss other than Parent, PresHints and
\* Revalidation advances to the next candidate. It returns StyleWasShared
\* with the index of the first candidate that matches when no candidate
\* before it aborts the scan, and CannotShare otherwise.
C8_FirstMatchInScanOrder ==
    (IsLookup /\ ReachesScan(last.element)) =>
        LET n == num_entries(last.before)
            ends == {k \in 1..n : EndsScan(k)}
        IN IF ends = {}
           THEN /\ last.result = CannotShare
                /\ last.tested = [k \in 1..n |-> TestOf(k).miss]
           ELSE IF TestOf(FirstOf(ends)).ok
           THEN /\ last.result.kind = "StyleWasShared"
                /\ last.result.index = FirstOf(ends) - 1
                /\ last.tested = [k \in 1..(FirstOf(ends) - 1) |-> TestOf(k).miss]
           ELSE /\ last.result = CannotShare
                /\ last.tested = [k \in 1..FirstOf(ends) |-> TestOf(k).miss]

\* C8 witness: the most recently used candidate misses on its classes and
\* the next one matches.
C8_Witness ==
    /\ IsHit
    /\ last.result.index = 1
    /\ last.tested = <<"Class">>

\* C9 as stated: when the lookup returns a match at index i, the matched
\* candidate is the most recently used entry of the cache.
C9_LookupTouchesMatch ==
    IsHit =>
        last.returned[1].element = last.before[last.result.index + 1].element

\* C9: a lookup that returns a match at index i leaves the entries of the
\* cache in the order it found them, the matched candidate at index i; the
\* candidate is the most recently used entry, the others keeping their
\* order, once the caller has called touch(i).
C9_CallerTouchesMatch ==
    IsHit =>
        LET i == last.result.index
            found == CandidateElements(last.before)
        IN /\ CandidateElements(last.returned) = found
           /\ TestOf(i + 1).ok
           /\ CandidateElements(cache)
                 = <<found[i + 1]>> \o SubSeq(found, 1, i)
                       \o SubSeq(found, i + 2, Len(found))

\* C9 witness: a match at index 1, and the matched candidate at the front
\* of the cache after the touch.
C9_Witness ==
    /\ IsHit
    /\ last.result.index = 1
    /\ last.returned[2].element = cache[1].element
    /\ last.returned[1].element = cache[2].element

\* C10: insert_if_possible adds the element at the most recently used end
\* of the cache if and only if the element has a parent, is not native
\* anonymous, the relations hold none of the ID-selector, pseudo-element,
\* style-attribute and presentational-hints flags, and its style specifies
\* neither transitions nor animations; otherwise the cache is unchanged.
C10_InsertIffShareable ==
    IsAllowedCascade =>
        LET e == last.element
            box == values(styles(data[e]).primary)
            admitted ==
                /\ dom[e].parent # None
                /\ ~dom[e].nac
                /\ last.relations \cap
                      {AFFECTED_BY_ID_SELECTOR, AFFECTED_BY_PSEUDO_ELEMENTS,
                       AFFECTED_BY_STYLE_ATTRIBUTE,
                       AFFECTED_BY_PRESENTATIONAL_HINTS} = {}
                /\ ~box.transitions
                /\ ~box.animations
        IN IF admitted
           THEN /\ num_entries(cache) >= 1
                /\ cache[1].element = e
                /\ CandidateElements(cache)
                      = <<e>> \o SubSeq(CandidateElements(last.before), 1,
                                        num_entries(cache) - 1)
                /\ num_entries(cache) =
                      IF num_entries(last.before) = 8 THEN 8
                      ELSE num_entries(last.before) + 1
           ELSE cache = last.before

\* C10 witness: an element whose pseudo-element matched rules is offered to
\* a cache that holds entries, and the cache is left as it was.
C10_Witness ==
    /\ IsAllowedCascade
    /\ AFFECTED_BY_PSEUDO_ELEMENTS \in last.relations
    /\ dom[last.element].parent # None
    /\ last.before # <<>>
    /\ cache = last.before

\* C11 as stated: insert_if_possible on an element with an id attribute
\* leaves the cache as it was.
C11_IdNeverInserted ==
    (IsAllowedCascade /\ IsSome(dom[last.element].id)) =>
        /\ cache = last.before
        /\ (num_entries(last.before) = 0 => num_entries(cache) = 0)

\* C11: insert_if_possible does not look at the id attribute. An element
\* with an id is left out when its relations hold the ID-selector flag (or
\* another condition of rejection holds) and is inserted like any other
\* element otherwise, an empty cache then holding one entry. A cached
\* element with an id never lends its style: no lookup hits it.
C11_IdInsertedUnlessIdSelectorMatched ==
    /\ (IsAllowedCascade /\ IsSome(dom[last.element].id)) =>
          IF \/ AFFECTED_BY_ID_SELECTOR \in last.relations
             \/ ~relations_are_shareable(last.relations)
             \/ dom[last.element].parent = None
             \/ dom[last.element].nac
             \/ values(styles(data[last.element]).primary).transitions
             \/ values(styles(data[last.element]).primary).animations
          THEN cache = last.before
          ELSE /\ cache[1].element = last.element
               /\ (num_entries(last.before) = 0 => num_entries(cache) = 1)
    /\ IsHit =>
          /\ dom[last.element].id = None
          /\ dom[last.before[last.result.index + 1].element].id = None

\* C11 witness: an element with an id that matched no id selector is
\* offered to an empty cache, which holds it afterwards.
C11_Witness ==
    /\ IsAllowedCascade
    /\ dom[last.element].id = Some("b")
    /\ AFFECTED_BY_ID_SELECTOR \notin last.relations
    /\ num_entries(last.before) = 0
    /\ num_entries(cache) = 1
    /\ cache[1].element = last.element

\* An element with no id, class or style attribute, matched by plain rules
\* only, with none of the relations that prevent sharing.
IsPlain(e) ==
    /\ dom[e].id = None
    /\ dom[e].classes = <<>>
    /\ ~dom[e].style
    /\ dom[e].matched = "plain"
    /\ dom[e].relations = {}
    /\ dom[e].pseudo_rules = [p \in EagerPseudos |-> None]

\* The positions in the cache the last lookup found of the siblings of its
\* element that have the very attributes of the element.
TwinsOf(e) ==
    {k \in 1..num_entries(last.before) : dom[last.before[k].element] = dom[e]}

\* C12 as stated: the lookup of the second of two plain siblings, the first
\* being in the cache, returns StyleWasShared with CanSkipCascade.
C12_SiblingSharesAndSkips ==
    (IsLookup /\ IsPlain(last.element) /\ TwinsOf(last.element) # {}) =>
        /\ last.result.kind = "StyleWasShared"
        /\ last.result.child = CanSkipCascade

\* C12: the lookup of the second of two plain siblings hits the cache
\* against the first and returns StyleWasShared with the index of the first.
\* The requirement for the children is CanSkipCascade only when the second
\* has a restyle pending and prior values that compare as Unchanged with
\* the shared values; it is MustCascade for an element styled for the first
\* time and for one whose prior values differ.
C12_SiblingShares ==
    (IsLookup /\ IsPlain(last.element) /\ TwinsOf(last.element) # {}) =>
        LET e == last.element
            first == last.before[FirstOf(TwinsOf(e))].element
            was == WideData[e]
        IN /\ last.result.kind = "StyleWasShared"
           /\ last.result.index = FirstOf(TwinsOf(e)) - 1
           /\ styles(data[e]).primary = styles(data[first]).primary
           /\ last.result.child =
                 IF /\ has_restyle(was)
                    /\ has_styles(was)
                    /\ values(styles(was).primary).display
                          = values(styles(data[first]).primary).display
                    /\ values(styles(was).primary).color
                          = values(styles(data[first]).primary).color
                    /\ values(styles(was).primary).ineffective_content
                          = values(styles(data[first]).primary).ineffective_content
                 THEN CanSkipCascade
                 ELSE MustCascade

\* C12 witness: a restyled element whose prior values equal the shared ones
\* hits the sibling styled just before it and may skip the cascade.
C12_Witness ==
    /\ IsHit
    /\ IsPlain(last.element)
    /\ has_restyle(WideData[last.element])
    /\ last.result.index = 0
    /\ dom[last.before[1].element] = dom[last.element]
    /\ last.result.child = CanSkipCascade

\* ------------------------------------------------------ the damage claims

IsAccumulate == last.op = "accumulate_damage"

IsDifference == last.op = "compute_style_difference"

\* The last accumulate_damage had a restyle record and prior values.
IsComparison == IsAccumulate /\ IsSome(last.restyle) /\ IsSome(last.old_values)

\* The difference the last accumulate_damage computes, when it computes one.
DifferenceOf ==
    compute_style_difference(last.element, Unwrap(last.old_values),
                             last.new_values, last.pseudo)

\* The damage source of the last call, old being its old values.
SourceOf(old) == existing_style_for_restyle_damage(last.element, old, last.pseudo)

\* The last accumulate_damage was for a ::before or ::after that exists.
IsExistingBeforeOrAfter ==
    /\ ctx.gecko
    /\ IsSome(last.pseudo) /\ is_before_or_after(Unwrap(last.pseudo))
    /\ IsSome(SourceOf(Unwrap(last.old_values)))

AlreadyReconstructs(restyle) ==
    "reconstruct" \in restyle.damage \/ "reconstruct" \in restyle.damage_handled

NotRendered(v) == v.display = "none" \/ v.ineffective_content

\* C13: no step of accumulate_damage or match_pseudos removes a bit of the
\* stored restyle damage of an element, nor its restyle record: the damage
\* after the step contains the damage before it.
C13_DamageNeverDecreases ==
    [][\A e \in DOMAIN data :
          has_restyle(data[e]) =>
              /\ has_restyle(data'[e])
              /\ Unwrap(data[e].restyle).damage
                     \subseteq Unwrap(data'[e].restyle).damage]_vars

\* C13 witness: in the Servo build an empty difference is merged into a
\* damage that holds reconstruct, and reconstruct is still there.
C13_Witness ==
    /\ IsComparison
    /\ ~ctx.gecko
    /\ "reconstruct" \in Unwrap(last.restyle).damage
    /\ DifferenceOf.damage = {}
    /\ "reconstruct" \in Unwrap(data[last.element].restyle).damage

\* C14: accumulate_damage without a restyle record, or without prior
\* values, leaves the restyle record as it was and returns MustCascade.
C14_NothingToCompareMustCascade ==
    (IsAccumulate /\ (IsNone(last.restyle) \/ IsNone(last.old_values))) =>
        /\ last.result = MustCascade
        /\ last.returned = last.restyle
        /\ data[last.element].restyle = last.restyle

\* C14 witness: a restyle record that holds reconstruct, no prior values.
C14_Witness ==
    /\ IsAccumulate
    /\ IsSome(last.restyle)
    /\ IsNone(last.old_values)
    /\ Unwrap(last.restyle).damage = {"reconstruct"}
    /\ last.result = MustCascade
    /\ last.returned = last.restyle

\* C15 as stated: the difference is merged into the stored damage unless
\* the traversal is for reconstruction or the damage, or the damage handled,
\* already holds reconstruct; in those cases the damage is unchanged.
C15_MergesUnlessReconstructing ==
    IsComparison =>
        Unwrap(last.returned).damage =
            IF ctx.for_reconstruct \/ AlreadyReconstructs(Unwrap(last.restyle))
            THEN Unwrap(last.restyle).damage
            ELSE Unwrap(last.restyle).damage \cup DifferenceOf.damage

\* C15: in the Gecko build the difference is merged into the stored damage
\* unless the call is for a ::before or ::after that exists, the traversal
\* is for reconstruction, or the damage or the damage handled already holds
\* reconstruct, and then the damage is unchanged; in the Servo build the
\* difference is always merged.
C15_MergesPerBuild ==
    IsComparison =>
        /\ Unwrap(last.returned).damage_handled = Unwrap(last.restyle).damage_handled
        /\ Unwrap(last.returned).damage =
              IF /\ ctx.gecko
                 /\ \/ IsExistingBeforeOrAfter
                    \/ ctx.for_reconstruct
                    \/ AlreadyReconstructs(Unwrap(last.restyle))
              THEN Unwrap(last.restyle).damage
              ELSE Unwrap(last.restyle).damage \cup DifferenceOf.damage

\* C15 witness: in the Servo build a repaint is merged into the damage of a
\* record whose handled damage holds reconstruct.
C15_Witness ==
    /\ IsComparison
    /\ ~ctx.gecko
    /\ "reconstruct" \in Unwrap(last.restyle).damage_handled
    /\ Unwrap(last.restyle).damage = {}
    /\ DifferenceOf.damage = {"repaint"}
    /\ Unwrap(last.returned).damage = {"repaint"}

\* C16 as stated: with a restyle record and prior values, the requirement
\* returned is CanSkipCascade when the difference is Unchanged and
\* MustCascade when it is Changed.
C16_RequirementIsTheVerdict ==
    IsComparison =>
        last.result = (IF DifferenceOf.change = Unchanged
                       THEN CanSkipCascade ELSE MustCascade)

\* C16: with a restyle record and prior values, the requirement returned is
\* CanSkipCascade when the difference is Unchanged and MustCascade when it
\* is Changed, except in the Gecko build, where a ::before or ::after that
\* exists gets CanSkipCascade and, otherwise, a traversal for
\* reconstruction gets MustCascade, whatever the difference.
C16_RequirementIsTheVerdictPerBuild ==
    IsComparison =>
        last.result =
            IF IsExistingBeforeOrAfter THEN CanSkipCascade
            ELSE IF ctx.gecko /\ ctx.for_reconstruct THEN MustCascade
            ELSE IF DifferenceOf.change = Unchanged THEN CanSkipCascade
            ELSE MustCascade

\* C16 witness: a traversal for reconstruction of the Gecko build returns
\* MustCascade for values that compare as Unchanged.
C16_Witness ==
    /\ IsComparison
    /\ ctx.gecko /\ ctx.for_reconstruct
    /\ ~IsExistingBeforeOrAfter
    /\ DifferenceOf.change = Unchanged
    /\ last.result = MustCascade

\* C17: with no damage source, old and new values both display:none give
\* an empty damage and Unchanged, whatever the other properties and the
\* pseudo-element.
C17_BothNoneUnchanged ==
    (/\ IsDifference
     /\ IsNone(SourceOf(last.old_values))
     /\ last.old_values.display = "none"
     /\ last.new_values.display = "none") =>
        last.result = StyleDifference({}, Unchanged)

\* C17 witness: two display:none values of different color and content, for
\* an element without a frame.
C17_Witness ==
    /\ IsDifference
    /\ ctx.gecko /\ ~dom[last.element].frame
    /\ last.pseudo = None
    /\ last.old_values.display = "none" /\ last.new_values.display = "none"
    /\ last.old_values.color # last.new_values.color
    /\ last.old_values.ineffective_content # last.new_values.ineffective_content
    /\ last.result = StyleDifference({}, Unchanged)

\* C18: with a damage source, compute_style_difference returns what the
\* comparator returns for the source and the new values.
C18_SourceGoesToComparator ==
    (IsDifference /\ IsSome(SourceOf(last.old_values))) =>
        last.result = RestyleDamage_compute_style_difference(
                          Unwrap(SourceOf(last.old_values)), last.new_values)

\* C18 witness: two display:none values of different color, for an element
\* of the Gecko build with a frame: the comparator's repaint is returned.
C18_Witness ==
    /\ IsDifference
    /\ ctx.gecko /\ dom[last.element].frame
    /\ last.pseudo = None
    /\ last.old_values.display = "none" /\ last.new_values.display = "none"
    /\ "repaint" \in last.result.damage
    /\ last.result.change = Changed

\* C19: for a ::before or ::after with no damage source, the difference is
\* empty and Unchanged when the old and the new values are both not
\* rendered (display:none or an ineffective content), and reconstruct and
\* Changed otherwise.
C19_BeforeAfterWithoutSource ==
    (/\ IsDifference
     /\ IsNone(SourceOf(last.old_values))
     /\ IsSome(last.pseudo) /\ Unwrap(last.pseudo) \in {"before", "after"}) =>
        last.result =
            IF NotRendered(last.old_values) /\ NotRendered(last.new_values)
            THEN StyleDifference({}, Unchanged)
            ELSE StyleDifference({"reconstruct"}, Changed)

\* C19 witness: a ::before from display:none to a block of ineffective
\* content stays Unchanged.
C19_Witness ==
    /\ IsDifference
    /\ last.pseudo = Some("before")
    /\ IsNone(SourceOf(last.old_values))
    /\ last.old_values.display = "none"
    /\ last.new_values.display = "block" /\ last.new_values.ineffective_content
    /\ last.result = StyleDifference({}, Unchanged)

\* C20: with no damage source, values that are not both display:none, and
\* no ::before or ::after, the difference is reconstruct and Changed.
C20_OtherwiseReconstruct ==
    (/\ IsDifference
     /\ IsNone(SourceOf(last.old_values))
     /\ ~(last.old_values.display = "none" /\ last.new_values.display = "none")
     /\ ~(IsSome(last.pseudo) /\ Unwrap(last.pseudo) \in {"before", "after"})) =>
        last.result = StyleDifference({"reconstruct"}, Changed)

\* C20 witness: a ::selection without a source, the very values before and
\* after, neither display:none.
C20_Witness ==
    /\ IsDifference
    /\ last.pseudo = Some("selection")
    /\ IsNone(SourceOf(last.old_values))
    /\ last.old_values = last.new_values
    /\ last.old_values.display = "block"
    /\ last.result = StyleDifference({"reconstruct"}, Changed)

\* ---------------------------------------------------- the later claims

\* C26: every candidate a worker's cache holds, and so every candidate a
\* lookup of the worker reads, is an element that same worker took and
\* inserted during its current unit of work: the cache is the worker's own
\* and is cleared when a unit of work ends, so no lookup reads an element
\* of an earlier unit of work or of another worker.
C26_CandidatesAreOfThisUnit ==
    /\ \A w \in Workers :
          \A k \in 1..num_entries(workers[w].cache) :
              /\ workers[w].cache[k].element \in unit[w]
              /\ \A v \in Workers \ {w} :
                     /\ workers[w].cache[k].element \notin unit[v]
                     /\ \A j \in 1..num_entries(workers[v].cache) :
                            workers[v].cache[j].element # workers[w].cache[k].element
    /\ IsLookup =>
          \A k \in 1..Len(last.tested) : last.before[k].element \in last.unit

\* C26 witness: a lookup of a worker tests a candidate while the other
\* worker holds candidates of its own, and an element styled in a unit of
\* work that has ended is in no cache any more.
C26_Witness ==
    /\ IsLookup
    /\ Len(last.tested) > 0
    /\ \E v \in Workers \ {last.worker} : num_entries(workers[v].cache) > 0
    /\ \E e \in Elements :
          /\ \A w \in Workers : e \notin unit[w]
          /\ IsPlain(e) /\ IsSome(parent_element(e))
          /\ has_styles(data[e])
          /\ \A w \in Workers : \A k \in 1..num_entries(workers[w].cache) :
                 workers[w].cache[k].element # e

\* The flags the last call of apply_selector_flags was given, by the
\* element each is destined for.
Destined ==
    {<<last.element, f>> : f \in for_self(last.flags)}
        \cup (IF IsSome(parent_element(last.element))
              THEN {<<Unwrap(parent_element(last.element)), f>> :
                       f \in for_parent(last.flags)}
              ELSE {})

IsApply == last.op = "apply_selector_flags"

\* The only flags a call writes in place are flags of the element the
\* worker is styling, and no two workers style the same element.
WritesInPlaceOnlyOnOwnElement ==
    /\ IsApply =>
          \A e \in Elements :
              dom[e].selector_flags # last.before[e] => e = last.self
    /\ \A w, v \in Workers :
          (w # v /\ IsSome(workers[w].styling)) =>
              workers[w].styling # workers[v].styling

\* C25 as stated: flags are written in place only on the element the
\* worker is styling, and every flag destined for another element is in the
\* worker's deferred map after the call.
C25_OtherElementsAlwaysDeferred ==
    /\ WritesInPlaceOnlyOnOwnElement
    /\ IsApply =>
          \A t \in Destined :
              t[1] # last.self => t \in workers[last.worker].selector_flags

\* C25: flags are written in place only on the element the worker is
\* styling, so no two workers write the flags of one element; the flags
\* destined for another element are added to the worker's deferred map,
\* unless that element has them all already, and then nothing is added.
C25_OtherElementsDeferredUnlessSet ==
    /\ WritesInPlaceOnlyOnOwnElement
    /\ IsApply =>
          /\ \A t \in Destined :
                (t[1] # last.self /\ t[2] \notin last.before[t[1]]) =>
                    t \in workers[last.worker].selector_flags
          /\ workers[last.worker].selector_flags \subseteq last.map \cup Destined
          /\ last.map \subseteq workers[last.worker].selector_flags
          /\ \A t \in Destined :
                (t[1] = last.element /\ t[1] # last.self
                    /\ for_self(last.flags) \subseteq last.before[t[1]]) =>
                    (t \in workers[last.worker].selector_flags <=> t \in last.map)

\* C25 witness: while two workers style two children of one parent, one of
\* them hands over a flag for the parent and one for a sibling that has it
\* already: the parent's flag is deferred, the sibling's is dropped.
C25_Witness ==
    /\ IsApply
    /\ \A w \in Workers : IsSome(workers[w].styling)
    /\ last.element # last.self
    /\ last.flags = {HAS_SLOW_SELECTOR, HAS_EMPTY_SELECTOR}
    /\ HAS_EMPTY_SELECTOR \in last.before[last.element]
    /\ <<last.element, HAS_EMPTY_SELECTOR>> \notin workers[last.worker].selector_flags
    /\ <<Unwrap(parent_element(last.element)), HAS_SLOW_SELECTOR>>
           \in workers[last.worker].selector_flags
    /\ \A e \in Elements : dom[e].selector_flags = last.before[e]

\* The levels of the rule tree that a set of replacement hints names.
HintedFields(replacements) ==
    (IF RESTYLE_SMIL \in replacements THEN {"smil_override"} ELSE {})
    \cup (IF RESTYLE_CSS_TRANSITIONS \in replacements THEN {"transitions"} ELSE {})
    \cup (IF RESTYLE_CSS_ANIMATIONS \in replacements THEN {"animations"} ELSE {})
    \cup (IF RESTYLE_STYLE_ATTRIBUTE \in replacements
          THEN {"style_attribute_normal", "style_attribute_important"} ELSE {})

IsReplace == last.op = "replace_rules"
RulesBefore == styles(last.before).primary.rules
RulesNow == styles(data[last.element]).primary.rules
ChangedFields == {f \in DOMAIN RulesNow : RulesNow[f] # RulesBefore[f]}

\* C29: replace_rules changes the primary rule node at hinted levels only
\* and leaves the rest of the element's data alone; its result holds
\* NORMAL_RULES_CHANGED exactly when a level that is not important was
\* replaced by a different node, IMPORTANT_RULES_CHANGED exactly when an
\* important level was, and is empty exactly when the rule node is the
\* one it was.
C29_ReplaceRulesReportsTheLevels ==
    IsReplace =>
        /\ ChangedFields \subseteq HintedFields(last.replacements)
        /\ data[last.element] =
               [last.before EXCEPT
                   !.styles = Some([Unwrap(@) EXCEPT !.primary.rules = RulesNow])]
        /\ (NORMAL_RULES_CHANGED \in last.result)
               = (ChangedFields \ {"style_attribute_important"} # {})
        /\ (IMPORTANT_RULES_CHANGED \in last.result)
               = ("style_attribute_important" \in ChangedFields)
        /\ (last.result = {}) = (RulesNow = RulesBefore)
        /\ last.result \subseteq {NORMAL_RULES_CHANGED, IMPORTANT_RULES_CHANGED}

\* A style attribute hint that replaced the important level only.
C29_Witness ==
    /\ IsReplace
    /\ last.replacements = {RESTYLE_STYLE_ATTRIBUTE}
    /\ ChangedFields = {"style_attribute_important"}
    /\ last.result = {IMPORTANT_RULES_CHANGED}

IsMatchPrimary == last.op = "match_primary"

\* The style the parent of e holds for the pseudo-element e implements.
ParentPseudoStyle(e) ==
    Unwrap(styles(data[Unwrap(parent_element(e))])
               .pseudos[Unwrap(implemented_pseudo_element(e))])

\* C27: for an element that implements an eager pseudo-element,
\* match_primary matches no selectors: the primary rule node it stores is
\* the rule node its parent holds for that pseudo-element, with the
\* element's animation rule at the Animations level and its transition
\* rule at the Transitions level when it has them, and rule_nodes_changed
\* tells whether the stored primary rule node is another than before.
C27_EagerPseudoTakesParentRules ==
    (IsMatchPrimary /\ is_eager_pseudo(last.element)) =>
        /\ RulesNow =
               [ParentPseudoStyle(last.element).rules EXCEPT
                   !.animations =
                       IF IsSome(dom[last.element].animation_rules[1])
                       THEN dom[last.element].animation_rules[1] ELSE @,
                   !.transitions =
                       IF IsSome(dom[last.element].animation_rules[2])
                       THEN dom[last.element].animation_rules[2] ELSE @]
        /\ last.relations = {}
        /\ last.result = (~has_styles(last.before) \/ RulesNow # RulesBefore)

\* An element backing ::before that has animation rules is matched again.
C27_Witness ==
    /\ IsMatchPrimary /\ is_eager_pseudo(last.element)
    /\ has_styles(last.before)
    /\ last.result
    /\ RulesNow.matched = "content"
    /\ RulesNow.animations = Some("animation")
    /\ RulesNow.transitions = Some("transition")

IsCascadePrimary == last.op = "cascade_primary"
IsCascadeEagerPseudo == last.op = "cascade_eager_pseudo"

\* The element takes the values of its parent's pseudo style as they are.
TakesParentPseudoValues(e) ==
    is_eager_pseudo(e) /\ dom[e].animation_rules = <<None, None>>

\* The values the parent of e holds, if it has a parent with styles.
ParentValues(e) ==
    IF IsSome(parent_element(e)) /\ has_styles(data[Unwrap(parent_element(e))])
    THEN styles(data[Unwrap(parent_element(e))]).primary.values
    ELSE None

\* C30: cascade_internal, for an element that implements an eager
\* pseudo-element and has no animation rules, cascades nothing and returns
\* the very value set its parent holds for that pseudo-element; otherwise it
\* cascades the rule node of the eager pseudo style it is given, inheriting
\* from the element's own primary values, or else the primary rule node,
\* inheriting from the parent's values.
C30_CascadeInternalPicksRulesAndParent ==
    /\ IsCascadePrimary =>
           last.cascaded =
               IF TakesParentPseudoValues(last.element)
               THEN Unwrap(ParentPseudoStyle(last.element).values)
               ELSE cascade(RulesBefore, ParentValues(last.element),
                            <<last.element, "primary">>)
    /\ IsCascadeEagerPseudo =>
           last.cascaded =
               cascade(Unwrap(styles(last.before).pseudos[last.pseudo]).rules,
                       styles(last.before).primary.values,
                       <<last.element, last.pseudo>>)

\* The element backing ::before got the value set of its parent's ::before,
\* which the parent cascaded from its own primary values.
C30_Witness ==
    /\ IsCascadePrimary
    /\ TakesParentPseudoValues(last.element)
    /\ last.cascaded.ptr = <<Unwrap(parent_element(last.element)), "before">>
    /\ styles(data[last.element]).primary.values = Some(last.cascaded)
    /\ last.cascaded.display = "inline"

\* The primary values the element held before the call.
Held == styles(last.before).primary.values

\* The old and the new values of the call as the hook left them.
Hooked ==
    IF ctx.for_animation_only
    THEN [old_values |-> Held, new_values |-> last.cascaded, task |-> None]
    ELSE process_animations(last.element, last.read, Held, last.cascaded,
                            [styles(last.before).primary EXCEPT !.values = None],
                            FALSE)

\* cascade_primary stored the new values the hook left and accumulated the
\* damage of old_values against them.
PrimaryComparedWith(old_values) ==
    LET acc == accumulate_damage(last.element, last.before.restyle, old_values,
                                 Hooked.new_values, None)
    IN /\ styles(data[last.element]) =
              [styles(last.before) EXCEPT !.primary.values = Some(Hooked.new_values)]
       /\ data[last.element].restyle = acc.restyle
       /\ last.result = acc.child

\* C24 as stated: cascade_primary takes the old values, cascades, runs the
\* hook, accumulates the damage and stores, so that the stored values and
\* the values the damage is computed against are the new values the hook
\* left, and the old values compared are those held before the call.
C24_OldValuesComparedAsHeld == IsCascadePrimary => PrimaryComparedWith(Held)

\* C24: cascade_primary takes the old values, cascades, runs the hook,
\* accumulates the damage and stores, so that the stored values and the
\* values the damage is computed against are the new values the hook left;
\* the old values compared are those held before the call as the hook left
\* them, which in the Servo build brings them up to date with the
\* element's running animations.
C24_OldValuesComparedAsHooked ==
    IsCascadePrimary => PrimaryComparedWith(Hooked.old_values)

\* An element with a running animation whose cascade gives the values it
\* held: the damage comes from the old values the hook changed.
C24_Witness ==
    /\ IsCascadePrimary
    /\ IsSome(Held) /\ has_restyle(last.before)
    /\ Hooked.old_values # Held
    /\ Hooked.new_values.color = Unwrap(Held).color
    /\ data[last.element].restyle # last.before.restyle
    /\ ~PrimaryComparedWith(Held)

\* Two value sets with the same computed values, whatever their address.
SameValues(a, b) == [a EXCEPT !.ptr = <<>>] = [b EXCEPT !.ptr = <<>>]

\* cascade_primary was called for an element that held values, and the
\* cascade gave the same values again.
IsRepeatedCascade ==
    IsCascadePrimary /\ IsSome(Held) /\ SameValues(Unwrap(Held), last.cascaded)

\* The second cascade found nothing changed.
FoundUnchanged ==
    /\ last.result = CanSkipCascade
    /\ data[last.element].restyle = last.before.restyle

\* What else it takes for the second cascade to find nothing changed: a
\* hook that leaves the old and the new values equal, and in the Gecko
\* build a traversal that is not for reconstruction and a frame to take
\* the old style from, unless both styles are display: none.
ComparesEqual ==
    /\ SameValues(Unwrap(Hooked.old_values), Hooked.new_values)
    /\ ctx.gecko =>
           /\ ~ctx.for_reconstruct
           /\ dom[last.element].frame \/ last.cascaded.display = "none"

\* C21 as stated: a second cascade of an element with the same rule node
\* and the same inherited values, which gives the values the element
\* holds, finds the difference Unchanged and lets the children skip the
\* cascade.
C21_RepeatedCascadeIsUnchanged == IsRepeatedCascade => FoundUnchanged

\* C21: a second cascade that gives the values the element holds finds
\* the difference Unchanged, adds no damage and returns CanSkipCascade
\* exactly when the hook leaves the old and the new values equal and, in
\* the Gecko build, the traversal is not for reconstruction and the
\* element has a frame or is display: none; otherwise it returns
\* MustCascade.
C21_RepeatedCascadeIsUnchangedIfCompared ==
    IsRepeatedCascade =>
        IF ComparesEqual THEN FoundUnchanged ELSE last.result = MustCascade

\* A second cascade in the Servo build that found nothing changed.
C21_Witness ==
    /\ IsRepeatedCascade /\ ComparesEqual /\ FoundUnchanged
    /\ ~ctx.gecko
    /\ last.cascaded.ptr # Unwrap(Held).ptr

IsMatchPseudos == last.op = "match_pseudos"

\* The eager pseudo-elements an ElementData has a style for.
PseudosOf(d) == {pseudo \in EagerPseudos : IsSome(styles(d).pseudos[pseudo])}

\* match_pseudos made the element start or stop matching a pseudo-element.
MatchesDifferentPseudos ==
    IsMatchPseudos /\ PseudosOf(data[last.element]) # PseudosOf(last.before)

\* C28 as stated: when match_pseudos makes the element start or stop
\* matching an eager pseudo-element, the element is marked with
\* reconstruct damage and match_pseudos reports that rule nodes changed.
C28_DifferentPseudosAlwaysMarked ==
    MatchesDifferentPseudos =>
        /\ last.result
        /\ has_restyle(data[last.element])
        /\ RestyleDamage_reconstruct \subseteq Unwrap(data[last.element].restyle).damage

\* C28: when match_pseudos makes the element start or stop matching an
\* eager pseudo-element, it reports that rule nodes changed, and it adds
\* reconstruct to the damage of the element's restyle record if the
\* element has one; an element without a restyle record is left without.
C28_DifferentPseudosMarkedInRestyle ==
    MatchesDifferentPseudos =>
        /\ last.result
        /\ data[last.element].restyle =
               IF has_restyle(last.before)
               THEN Some([Unwrap(last.before.restyle) EXCEPT
                             !.damage = @ \cup RestyleDamage_reconstruct])
               ELSE None

\* An element under restyle stopped matching ::after and kept ::before.
C28_Witness ==
    /\ MatchesDifferentPseudos
    /\ PseudosOf(last.before) = {"before", "after"}
    /\ PseudosOf(data[last.element]) = {"before"}
    /\ has_restyle(last.before)
    /\ ~(RestyleDamage_reconstruct \subseteq Unwrap(last.before.restyle).damage)
    /\ RestyleDamage_reconstruct \subseteq Unwrap(data[last.element].restyle).damage
    /\ last.result

\* The value sets an ElementData stores, each with the style that holds it.
StoredValues(d) ==
    IF ~has_styles(d) THEN {}
    ELSE (IF IsSome(styles(d).primary.values)
          THEN {<<"primary", Unwrap(styles(d).primary.values)>>} ELSE {})
         \cup {<<pseudo, Unwrap(Unwrap(styles(d).pseudos[pseudo]).values)>> :
                  pseudo \in {q \in PseudosOf(d) :
                                 IsSome(Unwrap(styles(d).pseudos[q]).values)}}

\* The styles of e whose value set the step replaces, removes or sets.
StylesChanged(e) ==
    {v[1] : v \in (StoredValues(data[e]) \ StoredValues(data'[e]))
                     \cup (StoredValues(data'[e]) \ StoredValues(data[e]))}

\* C23 as stated: only cascade_primary and cascade_eager_pseudo change the
\* value sets stored in an element's ElementData; no other operation,
\* the style-sharing lookup included, replaces or removes one.
C23_OnlyCascadesChangeValues ==
    [][\A e \in Elements :
          StylesChanged(e) # {} =>
              /\ last'.element = e
              /\ last'.op \in {"cascade_primary", "cascade_eager_pseudo"}]_vars

\* The styles of its element that the operation of the step may change the
\* value set of.
MayChange ==
    CASE last'.op \in {"cascade_primary", "panic"} -> {"primary"}
      [] last'.op = "cascade_eager_pseudo" -> {last'.pseudo}
      [] last'.op = "share_style_if_possible" ->
             IF last'.result.kind = "StyleWasShared"
             THEN {"primary"} \cup EagerPseudos ELSE {}
      [] last'.op = "match_pseudos" ->
             {pseudo \in EagerPseudos : IsNone(dom[last'.element].pseudo_rules[pseudo])}
      [] OTHER -> {}

\* C23: the value sets stored in an element's ElementData change in four
\* operations only, each on its own element: cascade_primary replaces the
\* primary value set (and leaves it taken when it panics in
\* update_animations_for_cascade), cascade_eager_pseudo that of its
\* pseudo-element,
\* share_style_if_possible on a hit replaces the primary value set by the
\* candidate's and drops the pseudo styles, and match_pseudos removes the
\* style of a pseudo-element that matches no rule any more, value set
\* included.
C23_CascadesHitsAndStoppedPseudosChangeValues ==
    [][\A e \in Elements :
          StylesChanged(e) # {} =>
              /\ last'.element = e
              /\ StylesChanged(e) \subseteq MayChange
              /\ last'.op = "share_style_if_possible" =>
                     StoredValues(data'[e]) =
                         {<<"primary", Unwrap(styles(data[cache[last'.result.index + 1].element]).primary.values)>>}
              /\ last'.op = "match_pseudos" =>
                     StoredValues(data'[e]) \subseteq StoredValues(data[e])]_vars

\* A hit for an element under restyle: the values it held were replaced by
\* those of another element.
C23_Witness ==
    /\ IsHit
    /\ has_restyle(data[last.element])
    /\ Unwrap(styles(data[last.element]).primary.values).ptr[1] # last.element
    /\ StoredValues(data[last.element]) =
           {<<"primary", Unwrap(styles(data[last.element]).primary.values)>>}

\* The style of d for the pseudo-element holds a value set.
PseudoHasValues(d, pseudo) == IsSome(Unwrap(styles(d).pseudos[pseudo]).values)

\* The primary style and every pseudo style of d hold a value set.
AllValuesPresent(d) ==
    /\ IsSome(styles(d).primary.values)
    /\ \A pseudo \in PseudosOf(d) : PseudoHasValues(d, pseudo)

\* The position of an eager pseudo-element in the order of cascade_pseudos.
PositionOf(pseudo) == CHOOSE i \in 1..Len(EagerPseudoOrder) : EagerPseudoOrder[i] = pseudo

\* C22 as stated: whenever cascade_primary, cascade_eager_pseudo,
\* match_and_cascade or share_style_if_possible has returned for an
\* element, its primary style and every style in its pseudo map hold a
\* value set.
C22_ValuesPresentAfterEveryOperation ==
    (/\ last.op \in {"cascade_primary", "cascade_eager_pseudo",
                     "match_and_cascade", "share_style_if_possible"}
     /\ has_styles(data[last.element]))
        => AllValuesPresent(data[last.element])

\* C22: a value set is absent only inside a styling step. Whenever
\* cascade_primary, match_and_cascade, cascade_primary_and_pseudos or
\* share_style_if_possible has returned for an element that has styles,
\* its primary style and every style in its pseudo map hold a value set,
\* and so does every element between two styling steps; when
\* cascade_eager_pseudo has returned, the primary style and the styles of
\* the pseudo-elements up to its own do.
C22_ValuesPresentAfterStylingStep ==
    /\ (/\ \/ last.op \in {"cascade_primary", "match_and_cascade",
                           "share_style_if_possible"}
           \/ last.op \in {"cascade_eager_pseudo", "cascade_pseudos"} /\ last.returns
        /\ has_styles(data[last.element]))
           => AllValuesPresent(data[last.element])
    /\ IsCascadeEagerPseudo =>
           /\ IsSome(styles(data[last.element]).primary.values)
           /\ \A pseudo \in PseudosOf(data[last.element]) :
                  PositionOf(pseudo) <= PositionOf(last.pseudo)
                      => PseudoHasValues(data[last.element], pseudo)
    /\ pc = "begin" =>
           \A e \in Elements : has_styles(data[e]) => AllValuesPresent(data[e])

\* cascade_eager_pseudo has returned for ::before while the ::after that
\* match_pseudos inserted is without values.
C22_Witness ==
    /\ IsCascadeEagerPseudo
    /\ last.pseudo = "before"
    /\ PseudosOf(data[last.element]) = {"before", "after"}
    /\ PseudoHasValues(data[last.element], "before")
    /\ ~PseudoHasValues(data[last.element], "after")

IsClear == last.op = "clear"

\* C34: clear() leaves the cache without entries whatever it held, and a
\* lookup on a cache without entries returns CannotShare and tests no
\* candidate.
C34_ClearLeavesNoEntries ==
    /\ IsClear => num_entries(cache) = 0 /\ num_entries(last.returned) = 0
    /\ (IsLookup /\ num_entries(last.before) = 0) =>
           /\ last.result = CannotShare
           /\ last.tested = <<>>
           /\ num_entries(cache) = 0

\* A clear of a cache that held several candidates.
C34_Witness ==
    /\ IsClear
    /\ num_entries(last.before) >= 3
    /\ num_entries(cache) = 0

\* C39: when share_style_if_possible returns CannotShare, because sharing
\* is disabled, the element has no parent, is native-anonymous, has a style
\* attribute or an id attribute, or because no candidate matched, the
\* ElementData of the element is as before the call, value sets, rule
\* nodes, pseudo map and restyle damage; no other element's is changed.
C39_CannotShareLeavesData ==
    [][(last'.op = "share_style_if_possible" /\ last'.result = CannotShare)
           => data' = data]_vars

\* A lookup of an element under restyle that tested candidates and shared
\* none: it still holds the values of the earlier pass.
C39_Witness ==
    /\ IsLookup
    /\ last.result = CannotShare
    /\ Len(last.tested) >= 2
    /\ has_restyle(data[last.element])
    /\ data[last.element] = Restyling("plain", <<last.element, "old">>, "black")

\* The candidate is one insert_if_possible lets in: an element with a
\* parent that is not native-anonymous content.
HasParentAndIsNotAnonymous(candidate) ==
    /\ IsSome(parent_element(candidate.element))
    /\ ~is_native_anonymous(candidate.element)

\* C38: every candidate the cache holds has a parent element and is not
\* native-anonymous content, and so is every candidate a lookup tests: the
\* assertion of element_matches_candidate on the candidate cannot fail.
C38_CandidatesHaveParentAndAreNotAnonymous ==
    /\ \A k \in 1..num_entries(cache) : HasParentAndIsNotAnonymous(cache[k])
    /\ IsLookup =>
           \A k \in 1..Len(last.tested) : HasParentAndIsNotAnonymous(last.before[k])

\* The native-anonymous element was styled with sharing allowed and offered
\* to a cache that holds candidates: it was not let in.
C38_Witness ==
    /\ IsAllowedCascade
    /\ is_native_anonymous(last.element)
    /\ IsSome(parent_element(last.element))
    /\ ~ctx.disable_style_sharing_cache
    /\ num_entries(last.before) >= 1
    /\ last.returned = last.before
    /\ cache = last.before

\* C36: an element that holds the style of an eager pseudo-element is
\* never in the style sharing cache, match_and_cascade having added
\* AFFECTED_BY_PSEUDO_ELEMENTS to its relations; so the styles a hit gives
\* the element, the shared primary style with an empty pseudo map, are
\* those of the candidate.
C36_NoCandidateHoldsPseudoStyles ==
    /\ \A k \in 1..num_entries(cache) : PseudosOf(data[cache[k].element]) = {}
    /\ IsAllowedCascade =>
           (PseudosOf(data[last.element]) # {} =>
               /\ AFFECTED_BY_PSEUDO_ELEMENTS \in last.relations
               /\ last.returned = last.before)
    /\ IsHit =>
           /\ PseudosOf(data[last.element]) = {}
           /\ styles(data[last.element]) =
                  styles(data[last.before[last.result.index + 1].element])

\* An element with a ::before style and no other reason to be kept out was
\* offered to the cache and not let in.
C36_Witness ==
    /\ IsAllowedCascade
    /\ PseudosOf(data[last.element]) = {"before"}
    /\ last.relations = {AFFECTED_BY_PSEUDO_ELEMENTS}
    /\ HasParentAndIsNotAnonymous([element |-> last.element])
    /\ ~specifies_transitions(values(styles(data[last.element]).primary))
    /\ ~specifies_animations(values(styles(data[last.element]).primary))
    /\ last.returned = last.before

\* The animation hints among the replacements of the last replace_rules.
AnimationHints == last.replacements \cap for_animations
StyleAttributeFields == {"style_attribute_normal", "style_attribute_important"}

\* C37: in replace_rules the animation hints take precedence: when any of
\* them is present the levels they name hold what the element gives for
\* them and no other level changes, the style attribute hint being left
\* for a later traversal; the style attribute levels are replaced exactly
\* when no animation hint is present and the style attribute hint is.
C37_AnimationHintsTakePrecedence ==
    IsReplace =>
        /\ AnimationHints # {} =>
               /\ ChangedFields \subseteq HintedFields(AnimationHints)
               /\ RESTYLE_SMIL \in AnimationHints =>
                      RulesNow.smil_override = get_smil_override(last.element)
               /\ RESTYLE_CSS_TRANSITIONS \in AnimationHints =>
                      RulesNow.transitions =
                          get_animation_rule_by_cascade(last.element, "Transitions")
               /\ RESTYLE_CSS_ANIMATIONS \in AnimationHints =>
                      RulesNow.animations =
                          get_animation_rule_by_cascade(last.element, "Animations")
        /\ (AnimationHints = {} /\ RESTYLE_STYLE_ATTRIBUTE \in last.replacements) =>
               /\ ChangedFields \subseteq StyleAttributeFields
               /\ \A f \in StyleAttributeFields :
                      RulesNow[f] = style_attribute(last.element)
        /\ ChangedFields \cap StyleAttributeFields # {} =>
               (AnimationHints = {} /\ RESTYLE_STYLE_ATTRIBUTE \in last.replacements)

\* An animation hint and the style attribute hint together: the animation
\* level was replaced, and the important style attribute level, which is
\* not what the element's style attribute gives, was left.
C37_Witness ==
    /\ IsReplace
    /\ last.replacements = {RESTYLE_CSS_ANIMATIONS, RESTYLE_STYLE_ATTRIBUTE}
    /\ ChangedFields = {"animations"}
    /\ RulesNow.style_attribute_important # style_attribute(last.element)
    /\ last.result = {NORMAL_RULES_CHANGED}

\* C33: the important_rules_overriding_animation_changed that match_primary
\* returns is true exactly when the element has animations, had styles
\* before the call, and the important rules of the rule node it held then
\* differ from those of the rule node it holds now: the comparison is with
\* the rule node as it was before the new one was stored.
C33_ImportantRulesComparedBeforeStoring ==
    IsMatchPrimary =>
        last.important_rules_changed =
            (/\ has_animations(last.element)
             /\ has_styles(last.before)
             /\ important_rules(RulesBefore) # important_rules(RulesNow))

\* An animated element whose old rule node had an important rule that the
\* new one has not.
C33_Witness ==
    /\ IsMatchPrimary
    /\ last.important_rules_changed
    /\ important_rules(RulesBefore) = {"color"}
    /\ important_rules(RulesNow) = {}
    /\ last.result

\* The eager pseudo-elements whose style the element held before the last
\* match_pseudos and holds now with another rule node.
PseudoRulesChanged ==
    {pseudo \in PseudosOf(last.before) \cap PseudosOf(data[last.element]) :
        Unwrap(styles(last.before).pseudos[pseudo]).rules
            # Unwrap(styles(data[last.element]).pseudos[pseudo]).rules}

\* C35: match_pseudos returns true whenever the rule node of at least one
\* eager pseudo-element changed in the call, whatever happened to the
\* pseudo-elements visited after it.
C35_AnyChangedPseudoRuleNodeIsReported ==
    (IsMatchPseudos /\ PseudoRulesChanged # {}) => last.result

IsGetBaseStyle == last.op = "get_base_style"

\* The style the last get_base_style was asked about, and the values the
\* element's parent holds.
RelevantStyle ==
    IF IsSome(last.pseudo) THEN Unwrap(styles(last.before).pseudos[Unwrap(last.pseudo)])
    ELSE styles(last.before).primary
HasAnimationRules(rule_node) ==
    IsSome(rule_node.animations) \/ IsSome(rule_node.transitions)
InheritedByLast ==
    IF IsSome(parent_element(last.element))
    THEN Some(values(styles(data[Unwrap(parent_element(last.element))]).primary))
    ELSE None

\* What get_base_style returned, by the rule node of the style.
BaseStyleReturned ==
    IsGetBaseStyle =>
        /\ ~HasAnimationRules(RelevantStyle.rules) =>
               last.result = Unwrap(RelevantStyle.values)
        /\ HasAnimationRules(RelevantStyle.rules) =>
               /\ last.result.ptr = <<last.element, "base">>
               /\ last.result =
                      cascade([RelevantStyle.rules EXCEPT
                                  !.animations = None, !.transitions = None],
                              InheritedByLast, <<last.element, "base">>)
               /\ last.result.color \notin {"animated", "transitioning"}

\* C31: get_base_style returns the value set the style holds, the same
\* Arc, when the rule node of the style has no animation and no transition
\* rule; otherwise it returns a new value set, cascaded from the rule node
\* without those rules. It leaves the element's data as they were.
C31_BaseStyleIsHeldOrCascaded ==
    /\ []BaseStyleReturned
    /\ [][last'.op = "get_base_style" => data' = data]_vars

\* The base style of an element with an animation rule was cascaded anew.
C31_Witness ==
    /\ IsGetBaseStyle
    /\ IsSome(RelevantStyle.rules.animations)
    /\ values(RelevantStyle).color = "animated"
    /\ last.result.color = "black"
    /\ last.result.ptr # values(RelevantStyle).ptr

\* The strict ancestors of an element, the nearest first.
RECURSIVE AncestorsOf(_)
AncestorsOf(e) ==
    IF IsNone(parent_element(e)) THEN <<>>
    ELSE <<Unwrap(parent_element(e))>> \o AncestorsOf(Unwrap(parent_element(e)))

HasDisplayContents(e) == values(styles(data[e]).primary).display = "contents"

\* r is what the claim says layout_parent of e is: e itself when e has no
\* parent, else the nearest strict ancestor that is not display: contents,
\* or the top-most ancestor when all of them are.
IsLayoutParentOf(r, e) ==
    LET ancestors == AncestorsOf(e)
    IN IF ancestors = <<>> THEN r = e
       ELSE \E k \in 1..Len(ancestors) :
               /\ r = ancestors[k]
               /\ \A j \in 1..(k - 1) : HasDisplayContents(ancestors[j])
               /\ ~HasDisplayContents(r) \/ k = Len(ancestors)

IsLayoutParent == last.op = "layout_parent"
IsCascadeWithRules == last.op = "cascade_with_rules"

\* The element the properties are inherited from in the last
\* cascade_with_rules.
InheritedFromEl ==
    IF last.inherit_mode = "Normal" THEN parent_element(last.element)
    ELSE Some(last.element)

LayoutParentReturned ==
    /\ IsLayoutParent =>
           /\ last.turns <= Len(AncestorsOf(last.element)) + 1
           /\ IsSome(last.returned) =>
                  /\ pc = "begin"
                  /\ IsLayoutParentOf(Unwrap(last.returned), last.element)
    /\ IsCascadeWithRules =>
           IF IsSome(last.sources.style_to_inherit_from)
                  /\ Unwrap(last.sources.style_to_inherit_from).display = "contents"
           THEN /\ IsLayoutParentOf(Unwrap(last.sources.layout_parent_el),
                                    Unwrap(InheritedFromEl))
                /\ last.sources.layout_parent_style =
                       Some(values(styles(
                           data[Unwrap(last.sources.layout_parent_el)]).primary))
           ELSE /\ last.sources.layout_parent_el = InheritedFromEl
                /\ last.sources.layout_parent_style =
                       last.sources.style_to_inherit_from

\* C32: layout_parent returns: its loop takes at most one turn more than
\* the element has ancestors. It returns the element itself when the element
\* has no parent, else the nearest strict ancestor whose primary style is
\* not display: contents, or the top-most ancestor when there is none.
\* cascade_with_rules takes the values of that ancestor of the element the
\* properties are inherited from as the layout parent style when the
\* inherited values are display: contents, and the inherited values
\* themselves otherwise.
C32_LayoutParentReturnsTheBoxAncestor ==
    /\ []LayoutParentReturned
    /\ (pc = "layout_parent") ~> (pc = "begin" /\ IsLayoutParent /\ IsSome(last.returned))

\* layout_parent skipped two display: contents ancestors and returned the
\* third, which generates a box and is not the root.
C32_Witness ==
    /\ IsLayoutParent
    /\ last.turns = 3
    /\ IsSome(last.returned)
    /\ ~HasDisplayContents(Unwrap(last.returned))
    /\ IsSome(parent_element(Unwrap(last.returned)))

IsFlush == last.op = "flush"

\* The flags asked for that their element does not carry.
NotCarried == {t \in unit : t[2] \notin dom[t[1]].selector_flags}

\* C40: no selector flag that apply_selector_flags was asked to set in the
\* parallel traversal is lost: a flag asked for is on its element or in
\* the deferred map of a worker, and once the maps of all workers are
\* flushed every element carries every flag asked for it.
C40_NoSelectorFlagIsLost ==
    /\ \A t \in NotCarried : \E w \in Workers : t \in workers[w].selector_flags
    /\ IsFlush => NotCarried = {}

\* Two workers had each deferred a flag, and a call had left out a flag as
\* its element had it already; the flush set what was deferred.
C40_Witness ==
    /\ IsFlush
    /\ \A w \in Workers : last.maps[w] # {}
    /\ last.maps[1] # last.maps[2]
    /\ \E t \in unit : t \in last.maps[1] /\ t[2] \notin last.before[t[1]]
    /\ \E t \in unit :
          t[2] \in last.before[t[1]] /\ \A w \in Workers : t \notin last.maps[w]
    /\ NotCarried = {}

====
